---------------------------- MODULE Spec2Model ----------------------------
(***************************************************************************)
(* MultiPosti: the PlatformManager's dispatch of one video to a list of    *)
(* platforms, and the upload sequences of the TikTok, Facebook and YouTube *)
(* drivers it calls.  Every network call of a driver is one step; what the *)
(* platform answers is an input of that step.                              *)
(***************************************************************************)
EXTENDS Integers, Sequences, FiniteSets, TLC

(***************************************************************************)
(* Bounds of the model.                                                    *)
(***************************************************************************)
\* longest list of platform names given to upload_video_to_multiple_platforms
MaxPlatforms == 2
\* calls of the manager's API made before the upload (register, authenticate)
MaxSetup == 2
\* answers "incomplete, call again" one resumable upload may get from next_chunk
MaxPartial == 1
\* bytes of a video file that is not empty
VideoBytes == 3

(***************************************************************************)
(* Names and classes.                                                      *)
(***************************************************************************)
\* the names a caller may request; "Facebook" differs from "facebook" in case only
PlatformNames == {"tiktok", "facebook", "youtube", "Facebook", "custom"}

\* str.lower() on the names of the model
lower(name) ==
    IF name = "Facebook" THEN "facebook" ELSE IF name = "Custom" THEN "custom" ELSE name

\* the driver classes; OtherPlatform is any other subclass of BaseSocialPlatform
PlatformClasses == {"TikTokPlatform", "FacebookPlatform", "YouTubePlatform", "OtherPlatform"}

\* the registrations a caller makes after construction (YouTube's is commented out in
\* _initialize_platforms)
Registrations == {[name |-> "youtube", cls |-> "YouTubePlatform"],
                  [name |-> "custom", cls |-> "OtherPlatform"],
                  [name |-> "Custom", cls |-> "OtherPlatform"]}

\* what Path(video_path) is on disk
FileStates == {"file", "missing", "directory", "empty"}

(***************************************************************************)
(* What a platform answers to one request.                                 *)
(***************************************************************************)
Http(status, body) == [kind |-> "http", status |-> status, body |-> body]

\* requests raised instead of returning (connection error, timeout)
TransportFailure == [kind |-> "exception", status |-> 0, body |-> "none"]

\* body "good" carries every field the driver reads, "bad" lacks them
Responses == {Http(200, "good"), Http(200, "bad"), Http(201, "good"), Http(308, "good"),
              Http(400, "good"), Http(503, "good"), TransportFailure}

\* the answers to the authentication probe (only status 200 or not matters)
ProbeResponses == {Http(200, "good"), Http(400, "good"), TransportFailure}

\* the class of an answer in the words of the error taxonomy
Kind(r) ==
    IF r.kind = "exception" THEN "transport"
    ELSE IF r.status \in 500..599 THEN "server"
    ELSE IF r.status \in 400..499 THEN "client"
    ELSE IF r.status = 308 THEN "partial"
    ELSE IF r.status = 201 THEN "created"
    ELSE IF r.body = "bad" THEN "malformed"
    ELSE "ok"

(***************************************************************************)
(* BaseSocialPlatform                                                      *)
(***************************************************************************)
\* BaseSocialPlatform.__init__: a new driver instance; `returned` is what the instance's last
\* authenticate() call returned ("none" before the first call)
NewPlatform(cls) ==
    [cls |-> cls, authenticated |-> FALSE, access_token |-> FALSE, returned |-> "none"]

\* mutant of validate_video_file: the size of the file is not looked at
validate_video_file_nosize(f) ==
    IF f = "missing" THEN FALSE
    ELSE IF f = "directory" THEN FALSE
    ELSE TRUE

\* BaseSocialPlatform.validate_video_file
validate_video_file(f) ==
    IF f = "missing" THEN FALSE
    ELSE IF f = "directory" THEN FALSE
    ELSE IF f = "empty" THEN FALSE
    ELSE TRUE

\* os.path.getsize(video_path)
getsize(f) == IF f = "file" THEN VideoBytes ELSE 0

\* mutant of upload_file_range: the body starts after the first byte
upload_file_range_tail(f) == [from |-> 1, to |-> getsize(f)]

\* the bytes one _upload_file request carries: the header file_offset is '0' (Facebook;
\* TikTok's PUT has none) and the body is the open file, read from its start to its end
upload_file_range(f) == [from |-> 0, to |-> getsize(f)]

\* mutant of Failure: the dictionary of a failure has no 'error'
Failure_bare(msg, status) == [success |-> FALSE]

\* the result dictionaries
Failure(msg, status) == [success |-> FALSE, error |-> [msg |-> msg, status |-> status]]

Success(fields) == [success |-> TRUE] @@ fields

(***************************************************************************)
(* The upload metadata.  A string is the sequence of its characters; an    *)
(* optional value is None or Some(value).                                  *)
(***************************************************************************)
MaxTitleLen == 2
MaxTags == 2

None == <<>>
Some(x) == <<x>>

\* all strings over the characters of chars, of length 0..n
Strings(chars, n) == UNION {[1..k -> chars] : k \in 0..n}

\* the titles given: none, or a string of letters and spaces
Titles == {None} \cup {Some(t) : t \in Strings({"a", " "}, MaxTitleLen)}

Descriptions == {None, Some(<<>>), Some(<<"d">>)}

\* the tags given: empty, blank, with and without marker, with spaces around
Tags == {<<>>, <<" ">>, <<"a">>, <<"#", "a">>, <<" ", "a", " ">>, <<" ", "#", "a">>,
         <<"#">>, <<"#", "#", "a">>}

\* the hashtag lists given: none, or 0..MaxTags tags
HashtagLists == {None} \cup {Some(h) : h \in UNION {[1..k -> Tags] : k \in 0..MaxTags}}

\* Python's truth value of an optional string or list: None and the empty one are false
Truthy(x) == x # None /\ x[1] # <<>>

\* str.strip()
RECURSIVE lstrip(_)
lstrip(str) == IF str # <<>> /\ Head(str) = " " THEN lstrip(Tail(str)) ELSE str

RECURSIVE rstrip(_)
rstrip(str) ==
    IF str # <<>> /\ str[Len(str)] = " " THEN rstrip(SubSeq(str, 1, Len(str) - 1)) ELSE str

strip(str) == rstrip(lstrip(str))

\* sep.join(parts)
RECURSIVE join(_, _)
join(sep, parts) ==
    IF parts = <<>> THEN <<>>
    ELSE IF Len(parts) = 1 THEN parts[1]
    ELSE parts[1] \o sep \o join(sep, Tail(parts))

\* 'Untitled'
Untitled == <<"U", "n", "t", "i", "t", "l", "e", "d">>

\* BaseSocialPlatform.prepare_upload_data (the timestamp is left out)
BaseSocialPlatform_prepare_upload_data(platform_name, title, description) ==
    [title |-> IF Truthy(title) THEN strip(title[1]) ELSE Untitled,
     description |-> IF Truthy(description) THEN strip(description[1]) ELSE <<>>,
     platform |-> platform_name]

\* title and description as _format_combined_text and _format_description put them in parts
TextParts(title, description) ==
    (IF Truthy(title) /\ strip(title[1]) # <<>> THEN <<strip(title[1])>> ELSE <<>>)
    \o (IF Truthy(description) /\ strip(description[1]) # <<>>
        THEN <<strip(description[1])>> ELSE <<>>)

\* FacebookPlatform._format_combined_text: the loop `for tag in hashtags`
RECURSIVE FacebookPlatform_formatted_hashtags(_)
FacebookPlatform_formatted_hashtags(hashtags) ==
    IF hashtags = <<>> THEN <<>>
    ELSE LET stripped == strip(Head(hashtags))
             tag == IF stripped # <<>> /\ Head(stripped) # "#"
                    THEN <<"#">> \o stripped ELSE stripped
         IN  (IF tag # <<>> THEN <<tag>> ELSE <<>>)
             \o FacebookPlatform_formatted_hashtags(Tail(hashtags))

\* FacebookPlatform._format_combined_text
FacebookPlatform_format_combined_text(title, description, hashtags) ==
    LET formatted == IF Truthy(hashtags) THEN FacebookPlatform_formatted_hashtags(hashtags[1])
                     ELSE <<>>
    IN  join(<<"\n", "\n">>,
             TextParts(title, description)
             \o (IF formatted # <<>> THEN <<join(<<" ">>, formatted)>> ELSE <<>>))

\* FacebookPlatform.prepare_upload_data; formatted_hashtags is the local list of
\* _format_combined_text
FacebookPlatform_prepare_upload_data(title, description, hashtags) ==
    [base |-> BaseSocialPlatform_prepare_upload_data("facebook", title, description),
     hashtags |-> hashtags,
     formatted_hashtags |-> IF Truthy(hashtags)
                            THEN FacebookPlatform_formatted_hashtags(hashtags[1]) ELSE <<>>,
     text |-> FacebookPlatform_format_combined_text(title, description, hashtags)]

\* mutant of the loop of _format_description: the marker is put before every tag, the test
\* of startswith('#') is missing
RECURSIVE TikTokPlatform_formatted_hashtags_marked(_)
TikTokPlatform_formatted_hashtags_marked(hashtags) ==
    IF hashtags = <<>> THEN <<>>
    ELSE LET stripped == strip(Head(hashtags))
             tag == IF stripped # <<>> THEN <<"#">> \o stripped ELSE stripped
         IN  (IF tag # <<>> THEN <<tag>> ELSE <<>>)
             \o TikTokPlatform_formatted_hashtags_marked(Tail(hashtags))

\* TikTokPlatform._format_description: the loop `for tag in hashtags`
RECURSIVE TikTokPlatform_formatted_hashtags(_)
TikTokPlatform_formatted_hashtags(hashtags) ==
    IF hashtags = <<>> THEN <<>>
    ELSE LET stripped == strip(Head(hashtags))
             tag == IF stripped # <<>> /\ Head(stripped) # "#"
                    THEN <<"#">> \o stripped ELSE stripped
         IN  (IF tag # <<>> THEN <<tag>> ELSE <<>>)
             \o TikTokPlatform_formatted_hashtags(Tail(hashtags))

\* TikTok's limit of the description, and where the text over it is cut
DescriptionLimit == 2200
DescriptionCut == 2197

\* TikTokPlatform._format_description: '\n\n'.join(parts), the text before the limit is
\* applied
TikTokPlatform_joined_description(title, description, hashtags) ==
    LET formatted == IF Truthy(hashtags) THEN TikTokPlatform_formatted_hashtags(hashtags[1])
                     ELSE <<>>
    IN  join(<<"\n", "\n">>,
             TextParts(title, description)
             \o (IF formatted # <<>> THEN <<join(<<" ">>, formatted)>> ELSE <<>>))

\* mutant of _format_description: the text over the limit is not cut
TikTokPlatform_format_description_uncut(title, description, hashtags) ==
    TikTokPlatform_joined_description(title, description, hashtags)

\* TikTokPlatform._format_description
TikTokPlatform_format_description(title, description, hashtags) ==
    LET final_description == TikTokPlatform_joined_description(title, description, hashtags)
    IN  IF Len(final_description) > DescriptionLimit
        THEN SubSeq(final_description, 1, DescriptionCut) \o <<".", ".", ".">>
        ELSE final_description

\* TikTokPlatform._publish_video: data["description"] = description[:2200]
TikTokPlatform_publish_data(description) ==
    [description |-> SubSeq(description, 1,
                            IF Len(description) < DescriptionLimit THEN Len(description)
                            ELSE DescriptionLimit)]

\* TikTokPlatform.prepare_upload_data; formatted_hashtags is the local list of
\* _format_description
TikTokPlatform_prepare_upload_data(title, description, hashtags) ==
    [base |-> BaseSocialPlatform_prepare_upload_data("tiktok", title, description),
     hashtags |-> hashtags,
     formatted_hashtags |-> IF Truthy(hashtags)
                            THEN TikTokPlatform_formatted_hashtags(hashtags[1]) ELSE <<>>,
     text |-> TikTokPlatform_format_description(title, description, hashtags)]

(***************************************************************************)
(* authenticate() of the drivers.  Each returns the value returned (ok),   *)
(* the driver afterwards (plat), whether save_token was called (saved),    *)
(* whether the call raised (raised) and a word for the log (out).          *)
(***************************************************************************)
\* what load_token and the probe give to one authenticate() of TikTok or Facebook
AuthInputs ==
    {[token |-> "complete", probe |-> r] : r \in ProbeResponses}
    \cup {[token |-> t, probe |-> Http(200, "good")] : t \in {"absent", "partial"}}

\* what one authenticate() of YouTube finds: the client secret file, the stored token
\* ("expired": expired with a refresh token; "invalid": neither valid nor refreshable),
\* whether the refresh or the interactive flow goes through (ok), and whether build() does
YouTubeAuthInputs ==
    {[secret |-> FALSE, token |-> "absent", ok |-> TRUE, build |-> TRUE]}
    \cup {[secret |-> TRUE, token |-> t, ok |-> b, build |-> c] :
             t \in {"absent", "valid", "expired", "invalid"}, b \in BOOLEAN, c \in BOOLEAN}

\* what an authenticate() of another subclass does
OtherAuthInputs == {"true", "false", "raise"}

AuthResult(ok, plat, saved, raised, out) ==
    [ok |-> ok, plat |-> plat, saved |-> saved, raised |-> raised, out |-> out]

\* FacebookPlatform._test_authentication / TikTokPlatform._test_authentication
test_authentication(probe) == probe.kind = "http" /\ probe.status = 200

\* FacebookPlatform.authenticate
FacebookPlatform_authenticate(plat, in) ==
    IF in.token = "absent" THEN AuthResult(FALSE, plat, FALSE, FALSE, "no token")
    ELSE IF in.token = "partial" THEN AuthResult(FALSE, plat, FALSE, FALSE, "missing field")
    ELSE LET loaded == [plat EXCEPT !.access_token = TRUE]
         IN  IF test_authentication(in.probe)
             THEN AuthResult(TRUE, [loaded EXCEPT !.authenticated = TRUE], FALSE, FALSE, "ok")
             ELSE AuthResult(FALSE, loaded, FALSE, FALSE, "probe failed")

\* mutant of authenticate: `if not token_data: return False` is missing, the probe is made
\* with whatever was loaded
TikTokPlatform_authenticate_unchecked(plat, in) ==
    IF in.token = "partial" THEN AuthResult(FALSE, plat, FALSE, FALSE, "missing field")
    ELSE LET loaded == [plat EXCEPT !.access_token = TRUE]
         IN  IF test_authentication(in.probe)
             THEN AuthResult(TRUE, [loaded EXCEPT !.authenticated = TRUE], FALSE, FALSE, "ok")
             ELSE AuthResult(FALSE, loaded, FALSE, FALSE, "probe failed")

\* TikTokPlatform.authenticate
TikTokPlatform_authenticate(plat, in) ==
    IF in.token = "absent" THEN AuthResult(FALSE, plat, FALSE, FALSE, "no token")
    ELSE IF in.token = "partial" THEN AuthResult(FALSE, plat, FALSE, FALSE, "missing field")
    ELSE LET loaded == [plat EXCEPT !.access_token = TRUE]
         IN  IF test_authentication(in.probe)
             THEN AuthResult(TRUE, [loaded EXCEPT !.authenticated = TRUE], FALSE, FALSE, "ok")
             ELSE AuthResult(FALSE, loaded, FALSE, FALSE, "probe failed")

\* mutant of authenticate: save_token is called on every pass, also for a token found valid
YouTubePlatform_authenticate_saving(plat, in) ==
    IF ~in.secret THEN AuthResult(FALSE, plat, FALSE, FALSE, "no client secret")
    ELSE IF ~in.ok /\ in.token # "valid"
    THEN AuthResult(FALSE, [plat EXCEPT !.authenticated = FALSE], FALSE, FALSE,
                    IF in.token = "expired" THEN "refresh failed" ELSE "oauth flow failed")
    ELSE IF in.build
    THEN AuthResult(TRUE, [plat EXCEPT !.authenticated = TRUE, !.access_token = TRUE],
                    TRUE, FALSE, IF in.token = "valid" THEN "ok"
                                 ELSE IF in.token = "expired" THEN "refreshed" ELSE "oauth flow")
    ELSE AuthResult(FALSE, [plat EXCEPT !.authenticated = FALSE], TRUE, FALSE, "build failed")

\* mutant of authenticate: the branch of creds.refresh is missing, every token that is not
\* valid starts the interactive flow
YouTubePlatform_authenticate_norefresh(plat, in) ==
    IF ~in.secret THEN AuthResult(FALSE, plat, FALSE, FALSE, "no client secret")
    ELSE IF in.token = "valid"
    THEN IF in.build
         THEN AuthResult(TRUE, [plat EXCEPT !.authenticated = TRUE, !.access_token = TRUE],
                         FALSE, FALSE, "ok")
         ELSE AuthResult(FALSE, [plat EXCEPT !.authenticated = FALSE], FALSE, FALSE, "build failed")
    ELSE IF ~in.ok
    THEN AuthResult(FALSE, [plat EXCEPT !.authenticated = FALSE], FALSE, FALSE, "oauth flow failed")
    ELSE IF in.build
    THEN AuthResult(TRUE, [plat EXCEPT !.authenticated = TRUE, !.access_token = TRUE],
                    TRUE, FALSE, "oauth flow")
    ELSE AuthResult(FALSE, [plat EXCEPT !.authenticated = FALSE], TRUE, FALSE, "build failed")

\* YouTubePlatform.authenticate
YouTubePlatform_authenticate(plat, in) ==
    IF ~in.secret THEN AuthResult(FALSE, plat, FALSE, FALSE, "no client secret")
    ELSE IF in.token = "valid"
    THEN IF in.build
         THEN AuthResult(TRUE, [plat EXCEPT !.authenticated = TRUE, !.access_token = TRUE],
                         FALSE, FALSE, "ok")
         ELSE AuthResult(FALSE, [plat EXCEPT !.authenticated = FALSE], FALSE, FALSE, "build failed")
    ELSE IF ~in.ok
    THEN AuthResult(FALSE, [plat EXCEPT !.authenticated = FALSE], FALSE, FALSE,
                    IF in.token = "expired" THEN "refresh failed" ELSE "oauth flow failed")
    ELSE IF in.build
    THEN AuthResult(TRUE, [plat EXCEPT !.authenticated = TRUE, !.access_token = TRUE],
                    TRUE, FALSE, IF in.token = "expired" THEN "refreshed" ELSE "oauth flow")
    ELSE AuthResult(FALSE, [plat EXCEPT !.authenticated = FALSE], TRUE, FALSE, "build failed")

\* BaseSocialPlatform.authenticate, abstract: another subclass returns or raises
OtherPlatform_authenticate(plat, in) ==
    IF in = "true" THEN AuthResult(TRUE, [plat EXCEPT !.authenticated = TRUE], FALSE, FALSE, "ok")
    ELSE IF in = "false" THEN AuthResult(FALSE, plat, FALSE, FALSE, "failed")
    ELSE AuthResult(FALSE, plat, FALSE, TRUE, "raised")

\* platform.authenticate(): the method of the instance's class, with the value returned
\* noted on the instance
authenticate(plat, in) ==
    LET a == IF plat.cls = "FacebookPlatform" THEN FacebookPlatform_authenticate(plat, in)
             ELSE IF plat.cls = "TikTokPlatform" THEN TikTokPlatform_authenticate(plat, in)
             ELSE IF plat.cls = "YouTubePlatform" THEN YouTubePlatform_authenticate(plat, in)
             ELSE OtherPlatform_authenticate(plat, in)
    IN  [a EXCEPT !.plat.returned = IF a.raised THEN "raised"
                                    ELSE IF a.ok THEN "True" ELSE "False"]

(***************************************************************************)
(* The timeout, in seconds, that the driver gives to the request of each   *)
(* operation; an operation outside the domain is called with none.         *)
(***************************************************************************)
\* mutant of Timeouts: Facebook's transfer is given the timeout of its session start
Timeouts_flat ==
    (<<"FacebookPlatform", "authenticate">> :> 10)
    @@ (<<"FacebookPlatform", "start_session">> :> 30)
    @@ (<<"FacebookPlatform", "upload_file">> :> 30)
    @@ (<<"FacebookPlatform", "publish_video">> :> 60)
    @@ (<<"TikTokPlatform", "authenticate">> :> 10)
    @@ (<<"TikTokPlatform", "start_session">> :> 30)
    @@ (<<"TikTokPlatform", "upload_file">> :> 300)
    @@ (<<"TikTokPlatform", "publish_video">> :> 30)

\* timeout= of the requests of the Facebook and TikTok drivers; insert_request.next_chunk()
\* and the calls of YouTube's authenticate are given none by the driver
Timeouts ==
    (<<"FacebookPlatform", "authenticate">> :> 10)
    @@ (<<"FacebookPlatform", "start_session">> :> 30)
    @@ (<<"FacebookPlatform", "upload_file">> :> 600)
    @@ (<<"FacebookPlatform", "publish_video">> :> 60)
    @@ (<<"TikTokPlatform", "authenticate">> :> 10)
    @@ (<<"TikTokPlatform", "start_session">> :> 30)
    @@ (<<"TikTokPlatform", "upload_file">> :> 300)
    @@ (<<"TikTokPlatform", "publish_video">> :> 30)

(***************************************************************************)
(* The steps of the Facebook and TikTok uploads: each maps the platform's  *)
(* answer to the dictionary the step returns.                              *)
(***************************************************************************)
\* FacebookPlatform._start_upload_session
FacebookPlatform_start_upload_session(r) ==
    IF r.kind = "exception" THEN Failure("Error iniciando sesion", 0)
    ELSE IF r.status = 200
    THEN IF r.body = "good"
         THEN Success([session_id |-> "upload:id"])
         ELSE Failure("ID de sesion invalido", 0)
    ELSE Failure("Error iniciando sesion de subida", r.status)

\* FacebookPlatform._upload_file
FacebookPlatform_upload_file(r) ==
    IF r.kind = "exception" THEN Failure("Error en subida de archivo", 0)
    ELSE IF r.status = 200
    THEN IF r.body = "good"
         THEN Success([file_handle |-> "h"])
         ELSE Failure("No se recibio identificador de archivo", 0)
    ELSE Failure("Error subiendo archivo", r.status)

\* mutant of _publish_video: the status of the answer is not looked at
FacebookPlatform_publish_video_unchecked(r) ==
    IF r.kind = "exception" THEN Failure("Error en publicacion", 0)
    ELSE Success([video_id |-> IF r.body = "good" THEN "id" ELSE "None", platform |-> "facebook"])

\* FacebookPlatform._publish_video
FacebookPlatform_publish_video(r) ==
    IF r.kind = "exception" THEN Failure("Error en publicacion", 0)
    ELSE IF r.status = 200
    THEN Success([video_id |-> IF r.body = "good" THEN "id" ELSE "None", platform |-> "facebook"])
    ELSE Failure("Error publicando video", r.status)

\* TikTokPlatform._initialize_upload
TikTokPlatform_initialize_upload(r) ==
    IF r.kind = "exception" THEN Failure("Error initializing upload", 0)
    ELSE IF r.status = 200
    THEN IF r.body = "good"
         THEN Success([upload_url |-> "url", video_id |-> "id"])
         ELSE Failure("Error initializing upload", 0)
    ELSE Failure("Failed to initialize upload", r.status)

\* TikTokPlatform._upload_file
TikTokPlatform_upload_file(r) ==
    IF r.kind = "exception" THEN Failure("Error uploading file", 0)
    ELSE IF r.status \in {200, 201} THEN Success(<<>>)
    ELSE Failure("Failed to upload file", r.status)

\* TikTokPlatform._publish_video
TikTokPlatform_publish_video(r) ==
    IF r.kind = "exception" THEN Failure("Error publishing video", 0)
    ELSE IF r.status = 200
    THEN IF r.body = "good"
         THEN Success([publish_id |-> "publish_id"])
         ELSE Failure("Error publishing video", 0)
    ELSE Failure("Failed to publish video", r.status)

(***************************************************************************)
(* YouTubePlatform._resumable_upload                                       *)
(***************************************************************************)
\* max_retries
max_retries == 3

\* mutant of RetryableStatuses: the client errors are retried too
RetryableStatuses_wide == 400..599

\* the statuses of an HttpError that are retried
RetryableStatuses == {500, 502, 503, 504}

RECURSIVE Pow2(_)
Pow2(n) == IF n = 0 THEN 1 ELSE 2 * Pow2(n - 1)

\* mutant of sleep_time: 2 * retry
sleep_time_linear(retry) == 2 * retry

\* sleep_time = 2 ** retry
sleep_time(retry) == Pow2(retry)

\* mutants of the budget test: one retry too many, one too few
retries_exceeded_late(retry) == retry > max_retries + 1
retries_exceeded_early(retry) == retry >= max_retries

\* the budget test of the loop: retry > max_retries
retries_exceeded(retry) == retry > max_retries

\* mutant of the loop: the `break` of `except Exception` is missing, so that the error
\* set there is counted and retried like a retryable HttpError
resumable_upload_step_nobreak(r, retry) ==
    IF r.kind = "http" /\ r.status \in {200, 201}
    THEN [do |-> "return", retry |-> retry, slept |-> 0,
          response |-> IF r.body = "good" THEN "video" ELSE "no id"]
    ELSE IF r.kind = "http" /\ r.status = 308
    THEN [do |-> "again", retry |-> retry, slept |-> 0, response |-> "None"]
    ELSE IF r.kind = "exception" \/ r.status \in RetryableStatuses
    THEN IF retries_exceeded(retry + 1)
         THEN [do |-> "return", retry |-> retry + 1, slept |-> 0, response |-> "None"]
         ELSE [do |-> "again", retry |-> retry + 1, slept |-> sleep_time(retry + 1),
               response |-> "None"]
    ELSE [do |-> "raise", retry |-> retry, slept |-> 0, response |-> "None"]

\* mutant of the loop: `retry` is set back to 0 when a chunk is accepted
resumable_upload_step_reset(r, retry) ==
    IF r.kind = "exception"
    THEN [do |-> "return", retry |-> retry, slept |-> 0, response |-> "None"]
    ELSE IF r.status \in {200, 201}
    THEN [do |-> "return", retry |-> retry, slept |-> 0,
          response |-> IF r.body = "good" THEN "video" ELSE "no id"]
    ELSE IF r.status = 308
    THEN [do |-> "again", retry |-> 0, slept |-> 0, response |-> "None"]
    ELSE IF r.status \in RetryableStatuses
    THEN IF retries_exceeded(retry + 1)
         THEN [do |-> "return", retry |-> retry + 1, slept |-> 0, response |-> "None"]
         ELSE [do |-> "again", retry |-> retry + 1, slept |-> sleep_time(retry + 1),
               response |-> "None"]
    ELSE [do |-> "raise", retry |-> retry, slept |-> 0, response |-> "None"]

\* one pass of the loop `while response is None` on the answer r of next_chunk(), with
\* `retry` as it stands; gives what the loop does next (again, return, raise), the counter,
\* the delay slept (0: none) and the response returned
resumable_upload_step(r, retry) ==
    IF r.kind = "exception"
    THEN [do |-> "return", retry |-> retry, slept |-> 0, response |-> "None"]
    ELSE IF r.status \in {200, 201}
    THEN [do |-> "return", retry |-> retry, slept |-> 0,
          response |-> IF r.body = "good" THEN "video" ELSE "no id"]
    ELSE IF r.status = 308
    THEN [do |-> "again", retry |-> retry, slept |-> 0, response |-> "None"]
    ELSE IF r.status \in RetryableStatuses
    THEN IF retries_exceeded(retry + 1)
         THEN [do |-> "return", retry |-> retry + 1, slept |-> 0, response |-> "None"]
         ELSE [do |-> "again", retry |-> retry + 1, slept |-> sleep_time(retry + 1),
               response |-> "None"]
    ELSE [do |-> "raise", retry |-> retry, slept |-> 0, response |-> "None"]

\* mutant of upload_video: the result has no 'video_url'
YouTubePlatform_upload_result_nourl(step, r) ==
    IF step.do = "raise" THEN Failure("YouTube API error", r.status)
    ELSE IF step.response = "video"
    THEN Success([video_id |-> "id", platform |-> "youtube"])
    ELSE IF step.response = "no id" THEN Failure("Unexpected error during upload", 0)
    ELSE Failure("Upload failed - no response", 0)

\* YouTubePlatform.upload_video, from the return of _resumable_upload on
YouTubePlatform_upload_result(step, r) ==
    IF step.do = "raise" THEN Failure("YouTube API error", r.status)
    ELSE IF step.response = "video"
    THEN Success([video_id |-> "id", video_url |-> "https://www.youtube.com/watch?v=id",
                  platform |-> "youtube"])
    ELSE IF step.response = "no id" THEN Failure("Unexpected error during upload", 0)
    ELSE Failure("Upload failed - no response", 0)

(***************************************************************************)
(* State.                                                                  *)
(***************************************************************************)
VARIABLES
    platforms,     \* PlatformManager.platforms: registered key -> driver instance
    token_writes,  \* the platforms whose token file the program has written
    setups,        \* API calls made before the upload
    pc,            \* where the upload call stands
    req,           \* the list of requested names (one name for upload_video_to_platform)
    video,         \* what video_path is on disk
    idx,           \* the position of the loop in req
    results,       \* the dictionary `results` being filled
    orch,          \* per position started: the requested name, the driver calls made
                   \* with their answers, the delays slept, and the token authenticate()
                   \* found in the store
    retry,         \* _resumable_upload's `retry`
    partials,      \* incomplete answers got by the resumable upload in flight
    metadata,      \* title, description and hashtags given by the caller
    upload_data,   \* driver -> what its prepare_upload_data returned for metadata
    importable     \* the platform modules whose import succeeds

vars == <<platforms, token_writes, setups, pc, req, video, idx, results, orch, retry, partials,
          metadata, upload_data, importable>>

\* PlatformManager.get_platform: the key looked up is name.lower()
Registered(name) == lower(name) \in DOMAIN platforms

\* mutant of get_platform: every lookup gives a new instance of the registered class
get_platform_fresh(name) == NewPlatform(platforms[lower(name)].cls)

get_platform(name) == platforms[lower(name)]

\* PlatformManager.get_platform_status (credentials_path and supported_formats left out)
get_platform_status(name) ==
    IF ~Registered(name) THEN [exists |-> FALSE, error |-> "Platform not found"]
    ELSE [exists |-> TRUE, authenticated |-> get_platform(name).authenticated,
          platform_name |-> get_platform(name).cls]

\* PlatformManager.get_all_platform_status
get_all_platform_status == [name \in DOMAIN platforms |-> get_platform_status(name)]

\* the name at the loop's position and its driver
platform_name == req[idx]
platform == get_platform(platform_name)

\* a call of a driver operation and its answer, as logged in orch
Call(op, out) == [op |-> op, out |-> out]

Logged(calls) == [orch EXCEPT ![idx].calls = @ \o calls]

\* what load_token gives to the authenticate() of plat that meets `in`: the state of the
\* platform's token file in the credential store
Found(plat, in) == IF plat.cls = "OtherPlatform" THEN "unknown" ELSE in.token

\* the call of authenticate() as logged, with what the store held
LoggedAuth(plat, in, out) ==
    [orch EXCEPT ![idx].calls = @ \o <<Call("authenticate", out)>>,
                 ![idx].found = Found(plat, in)]

\* mutant of Put: the entry is keyed by the registry's key, name.lower()
Put_lowered(name, result) ==
    [n \in DOMAIN results \cup {lower(name)} |->
       IF n = lower(name) THEN result ELSE results[n]]

\* results[platform_name] = result
Put(name, result) ==
    [n \in DOMAIN results \cup {name} |-> IF n = name THEN result ELSE results[n]]

\* mutant of Finish: the loop is left at the first failed result
Finish_abort(result) ==
    /\ results' = Put(platform_name, result)
    /\ idx' = IF result.success THEN idx + 1 ELSE Len(req) + 1
    /\ pc' = "next"

\* the end of one pass of the loop of upload_video_to_multiple_platforms
Finish(result) ==
    /\ results' = Put(platform_name, result)
    /\ idx' = idx + 1
    /\ pc' = "next"

\* the upload call stands at a call of a driver (network I/O or, in _resumable_upload, the
\* sleep before the next attempt)
Suspended ==
    pc \in {"authenticate", "upload", "start_session", "upload_file", "publish_video",
            "next_chunk"}

\* all lists of 1..MaxPlatforms requested names
Requests == UNION {[1..n -> PlatformNames] : n \in 1..MaxPlatforms}

\* PlatformManager.__init__ and _initialize_platforms: TikTok and Facebook are registered
Init ==
    /\ platforms = [n \in {"tiktok", "facebook"} |->
                      NewPlatform(IF n = "tiktok" THEN "TikTokPlatform" ELSE "FacebookPlatform")]
    /\ token_writes = {}
    /\ setups = 0
    /\ pc = "idle"
    /\ req = <<>>
    /\ video = "file"
    /\ idx = 1
    /\ results = <<>>
    /\ orch = <<>>
    /\ retry = 0
    /\ partials = 0
    /\ metadata = [title |-> Some(<<"a">>), description |-> Some(<<>>), hashtags |-> None]
    /\ upload_data = <<>>
    /\ importable = {"tiktok", "facebook"}

(***************************************************************************)
(* The manager's API before the upload.                                    *)
(***************************************************************************)
\* self.platforms after register_platform(name, platform_class): the instance is stored
\* under the name as given; when the constructor raises (BrokenPlatform) the exception is
\* caught and logged and nothing is stored
Registry(name, platform_class) ==
    IF platform_class = "BrokenPlatform" THEN platforms
    ELSE [n \in DOMAIN platforms \cup {name} |->
            IF n = name THEN NewPlatform(platform_class) ELSE platforms[n]]

\* PlatformManager.register_platform
register_platform(name, platform_class) ==
    /\ pc = "idle"
    /\ setups < MaxSetup
    /\ setups' = setups + 1
    /\ platforms' = Registry(name, platform_class)
    /\ UNCHANGED <<importable, metadata, upload_data, token_writes, pc, req, video, idx, results,
                   orch, retry, partials>>

\* PlatformManager.authenticate_platform, for a name whose driver is of one of `classes`
\* (`in` is what its authenticate() meets)
authenticate_platform(name, classes, in) ==
    /\ pc = "idle"
    /\ setups < MaxSetup
    /\ Registered(name)
    /\ get_platform(name).cls \in classes
    /\ setups' = setups + 1
    /\ LET a == authenticate(get_platform(name), in)
       IN  /\ platforms' = [platforms EXCEPT ![lower(name)] = a.plat]
           /\ token_writes' = IF a.saved THEN token_writes \cup {lower(name)}
                              ELSE token_writes
           /\ pc' = IF a.raised THEN "raised" ELSE pc
    /\ UNCHANGED <<importable, metadata, upload_data, req, video, idx, results, orch, retry, partials>>

\* PlatformManager.authenticate_platform for a name that is not registered
authenticate_platform_not_found(name) ==
    /\ pc = "idle"
    /\ setups < MaxSetup
    /\ ~Registered(name)
    /\ setups' = setups + 1
    /\ UNCHANGED <<importable, metadata, upload_data, platforms, token_writes, pc, req, video, idx, results, orch, retry, partials>>

(***************************************************************************)
(* PlatformManager.upload_video_to_multiple_platforms                      *)
(***************************************************************************)
\* the call: results = {} and the loop starts
upload_video_to_multiple_platforms(names, video_path) ==
    /\ pc = "idle"
    /\ req' = names
    /\ video' = video_path
    /\ idx' = 1
    /\ results' = <<>>
    /\ orch' = <<>>
    /\ pc' = "next"
    /\ UNCHANGED <<importable, metadata, upload_data, platforms, token_writes, setups, retry, partials>>

\* mutant of upload_video_to_platform: a name without a driver is passed over in silence
upload_video_to_platform_skip ==
    /\ pc = "next"
    /\ idx <= Len(req)
    /\ orch' = Append(orch, [name |-> platform_name, calls |-> <<>>, delays |-> <<>>,
                            found |-> "unread",
                            locals |-> <<>>, sent |-> <<>>])
    /\ IF ~Registered(platform_name)
       THEN /\ idx' = idx + 1
            /\ pc' = "next"
            /\ UNCHANGED results
       ELSE /\ pc' = IF platform.authenticated THEN "upload" ELSE "authenticate"
            /\ UNCHANGED <<results, idx>>
    /\ UNCHANGED <<importable, metadata, upload_data, platforms, token_writes, setups, req, video, retry, partials>>

\* mutant of upload_video_to_platform: the next name's upload is also started while the
\* upload of the name before it is at a driver call
upload_video_to_platform_ahead ==
    \/ /\ pc = "next"
       /\ idx <= Len(req)
       /\ Len(orch) < idx
       /\ orch' = Append(orch, [name |-> platform_name, calls |-> <<>>, delays |-> <<>>,
                            found |-> "unread",
                            locals |-> <<>>, sent |-> <<>>])
       /\ IF ~Registered(platform_name)
          THEN /\ results' = Put(platform_name, Failure("Platform not found", 0))
               /\ idx' = idx + 1
               /\ pc' = "next"
          ELSE /\ pc' = IF platform.authenticated THEN "upload" ELSE "authenticate"
               /\ UNCHANGED <<results, idx>>
       /\ UNCHANGED <<importable, metadata, upload_data, platforms, token_writes, setups, req, video, retry, partials>>
    \/ /\ Suspended
       /\ Len(orch) = idx
       /\ idx < Len(req)
       /\ orch' = Append(orch, [name |-> req[idx + 1], calls |-> <<>>, delays |-> <<>>,
                            found |-> "unread",
                            locals |-> <<>>, sent |-> <<>>])
       /\ UNCHANGED <<importable, metadata, upload_data, platforms, token_writes, setups, pc, req, video, idx, results, retry,
                      partials>>

\* upload_video_to_platform up to the authenticate() call: the lookup, and the test of
\* is_authenticated()
upload_video_to_platform ==
    /\ pc = "next"
    /\ idx <= Len(req)
    /\ orch' = Append(orch, [name |-> platform_name, calls |-> <<>>, delays |-> <<>>,
                            found |-> "unread",
                            locals |-> <<>>, sent |-> <<>>])
    /\ IF ~Registered(platform_name)
       THEN /\ results' = Put(platform_name, Failure("Platform not found", 0))
            /\ idx' = idx + 1
            /\ pc' = "next"
       ELSE /\ pc' = IF platform.authenticated THEN "upload" ELSE "authenticate"
            /\ UNCHANGED <<results, idx>>
    /\ UNCHANGED <<importable, metadata, upload_data, platforms, token_writes, setups, req, video, retry, partials>>

\* mutant of upload_video_to_platform: the value returned by platform.authenticate() is not
\* tested, platform.upload_video is called either way
manager_authenticate_unchecked(classes, in) ==
    /\ pc = "authenticate"
    /\ platform.cls \in classes
    /\ LET a == authenticate(platform, in)
       IN  /\ platforms' = [platforms EXCEPT ![lower(platform_name)] = a.plat]
           /\ token_writes' = IF a.saved THEN token_writes \cup {lower(platform_name)}
                              ELSE token_writes
           /\ orch' = LoggedAuth(platform, in, a.out)
           /\ pc' = IF a.raised THEN "raised" ELSE "upload"
    /\ UNCHANGED <<importable, metadata, upload_data, setups, req, video, idx, results, retry, partials>>

\* upload_video_to_platform: `if not platform.authenticate(): return ...`
manager_authenticate(classes, in) ==
    /\ pc = "authenticate"
    /\ platform.cls \in classes
    /\ LET a == authenticate(platform, in)
       IN  /\ platforms' = [platforms EXCEPT ![lower(platform_name)] = a.plat]
           /\ token_writes' = IF a.saved THEN token_writes \cup {lower(platform_name)}
                              ELSE token_writes
           /\ orch' = LoggedAuth(platform, in, a.out)
           /\ IF a.raised
              THEN pc' = "raised" /\ UNCHANGED <<results, idx>>
              ELSE IF a.ok
              THEN pc' = "upload" /\ UNCHANGED <<results, idx>>
              ELSE Finish(Failure("Authentication failed", 0))
    /\ UNCHANGED <<importable, metadata, upload_data, setups, req, video, retry, partials>>

\* the return of the upload call
return_results ==
    /\ pc = "next"
    /\ idx > Len(req)
    /\ pc' = "done"
    /\ UNCHANGED <<importable, metadata, upload_data, platforms, token_writes, setups, req, video, idx, results, orch, retry, partials>>

(***************************************************************************)
(* upload_video of the drivers, up to the first network call of the upload *)
(***************************************************************************)
\* upload_video of Facebook and TikTok up to the upload proper; `in` is what authenticate()
\* meets when `if not self._authenticated` calls it; auth_error and file_error are the
\* messages of the class
driver_upload_video(in, auth_error, file_error) ==
    LET a == IF platform.authenticated
             THEN AuthResult(TRUE, platform, FALSE, FALSE, "ok")
             ELSE authenticate(platform, in)
        calls == IF platform.authenticated THEN <<>> ELSE <<Call("authenticate", a.out)>>
    IN  /\ platforms' = [platforms EXCEPT ![lower(platform_name)] = a.plat]
        /\ IF ~a.ok
           THEN /\ orch' = Logged(calls)
                /\ Finish(Failure(auth_error, 0))
           ELSE IF ~validate_video_file(video)
           THEN /\ orch' = Logged(calls \o <<Call("validate_video_file", "invalid")>>)
                /\ Finish(Failure(file_error, 0))
           ELSE /\ orch' = Logged(calls \o <<Call("validate_video_file", "valid")>>)
                /\ pc' = "start_session"
                /\ UNCHANGED <<results, idx>>

\* FacebookPlatform.upload_video
FacebookPlatform_upload_video(in) ==
    /\ pc = "upload"
    /\ platform.cls = "FacebookPlatform"
    /\ driver_upload_video(in, "Fallo la autenticacion", "Archivo de video invalido")
    /\ UNCHANGED <<importable, metadata, upload_data, token_writes, setups, req, video, retry, partials>>

\* TikTokPlatform.upload_video
TikTokPlatform_upload_video(in) ==
    /\ pc = "upload"
    /\ platform.cls = "TikTokPlatform"
    /\ driver_upload_video(in, "Authentication failed", "Invalid video file")
    /\ UNCHANGED <<importable, metadata, upload_data, token_writes, setups, req, video, retry, partials>>

\* YouTubePlatform.upload_video up to the call of _resumable_upload
YouTubePlatform_upload_video ==
    /\ pc = "upload"
    /\ platform.cls = "YouTubePlatform"
    /\ IF ~platform.authenticated
       THEN /\ Finish(Failure("Not authenticated", 0))
            /\ UNCHANGED <<orch, retry, partials>>
       ELSE IF ~validate_video_file(video)
       THEN /\ orch' = Logged(<<Call("validate_video_file", "invalid")>>)
            /\ Finish(Failure("Invalid video file", 0))
            /\ UNCHANGED <<retry, partials>>
       ELSE /\ orch' = Logged(<<Call("validate_video_file", "valid")>>)
            /\ pc' = "next_chunk"
            /\ retry' = 0
            /\ partials' = 0
            /\ UNCHANGED <<results, idx>>
    /\ UNCHANGED <<importable, metadata, upload_data, platforms, token_writes, setups, req, video>>

\* BaseSocialPlatform.upload_video, abstract: another subclass returns a result or raises
OtherPlatform_upload_video(out) ==
    /\ pc = "upload"
    /\ platform.cls = "OtherPlatform"
    /\ orch' = Logged(<<Call("upload_video", out)>>)
    /\ IF out = "raise"
       THEN pc' = "raised" /\ UNCHANGED <<results, idx>>
       ELSE IF out = "success"
       THEN Finish(Success([video_id |-> "id", platform |-> "custom"]))
       ELSE Finish(Failure("upload failed", 0))
    /\ UNCHANGED <<importable, metadata, upload_data, platforms, token_writes, setups, req, video, retry, partials>>

\* what upload_video of another subclass does
OtherUploads == {"success", "failure", "raise"}

(***************************************************************************)
(* The three steps of the Facebook and TikTok uploads.                     *)
(***************************************************************************)
\* the identifiers a step's dictionary holds, each with the pass of the loop (the call of
\* upload_video) in which the platform gave it
IdentifierFields == {"session_id", "file_handle", "upload_url", "video_id"}
Obtained(result) ==
    [f \in DOMAIN result \cap IdentifierFields |-> [value |-> result[f], request |-> idx]]

\* the local variable of upload_video / _upload_video_resumable that is passed to `op`:
\* upload_session_id and file_handle (Facebook), upload_url and video_id (TikTok)
Passed(cls, op) ==
    IF op = "upload_file"
    THEN IF cls = "FacebookPlatform" THEN "session_id" ELSE "upload_url"
    ELSE IF op = "publish_video"
    THEN IF cls = "FacebookPlatform" THEN "file_handle" ELSE "video_id"
    ELSE "none"

\* mutant of Argument: the identifiers are kept from the first upload of the dispatch and
\* passed again in the uploads after it
Argument_cached(cls, op, locals) ==
    IF Passed(cls, op) \in DOMAIN orch[1].locals
    THEN Some(orch[1].locals[Passed(cls, op)]) ELSE None

\* the identifier `op` is invoked with: the value of that local variable, None when the
\* operation takes no identifier or the variable was never assigned
Argument(cls, op, locals) ==
    IF Passed(cls, op) \in DOMAIN locals THEN Some(locals[Passed(cls, op)]) ELSE None

\* a step as logged: the call and its answer, the identifier it was invoked with, and the
\* local variables assigned from the dictionary of a step that succeeded
LoggedStep(cls, op, r, result) ==
    [orch EXCEPT ![idx].calls = Append(@, Call(op, Kind(r))),
                 ![idx].sent = Append(@, [op |-> op, arg |-> Argument(cls, op, orch[idx].locals)]),
                 ![idx].locals = IF result.success THEN Obtained(result) @@ @ ELSE @]

\* mutant of Step: the test of the step's "success" is missing, the next step is made
\* whatever the step returned
Step_continue(at, cls, op, r, result, then) ==
    /\ pc = at
    /\ platform.cls = cls
    /\ orch' = LoggedStep(cls, op, r, result)
    /\ pc' = then
    /\ UNCHANGED <<results, idx>>
    /\ UNCHANGED <<importable, metadata, upload_data, platforms, token_writes, setups, req, video, retry, partials>>

\* mutant of Step: a failed step does not return, the upload stays in it
Step_wait(at, cls, op, r, result, then) ==
    /\ pc = at
    /\ platform.cls = cls
    /\ orch' = LoggedStep(cls, op, r, result)
    /\ pc' = IF result.success THEN then ELSE "waiting"
    /\ UNCHANGED <<results, idx>>
    /\ UNCHANGED <<importable, metadata, upload_data, platforms, token_writes, setups, req, video, retry, partials>>

\* one step: the call is logged; a failed step's dictionary is the result of upload_video
Step(at, cls, op, r, result, then) ==
    /\ pc = at
    /\ platform.cls = cls
    /\ orch' = LoggedStep(cls, op, r, result)
    /\ IF result.success
       THEN pc' = then /\ UNCHANGED <<results, idx>>
       ELSE Finish(result)
    /\ UNCHANGED <<importable, metadata, upload_data, platforms, token_writes, setups, req, video, retry, partials>>

\* the last step: its dictionary is the result either way
LastStep(at, cls, op, r, result) ==
    /\ pc = at
    /\ platform.cls = cls
    /\ orch' = LoggedStep(cls, op, r, result)
    /\ Finish(result)
    /\ UNCHANGED <<importable, metadata, upload_data, platforms, token_writes, setups, req, video, retry, partials>>

\* FacebookPlatform._upload_video_resumable, step 1
Facebook_start_session(r) ==
    Step("start_session", "FacebookPlatform", "start_session", r,
         FacebookPlatform_start_upload_session(r), "upload_file")

\* mutant of step 2: after a transient failure the session is asked for its offset
\* (_resume_upload_session) and the transfer is made again (_upload_file_with_offset)
Facebook_upload_file_resumed(r) ==
    /\ pc = "upload_file"
    /\ platform.cls = "FacebookPlatform"
    /\ LET result == FacebookPlatform_upload_file(r)
       IN  IF Kind(r) \in {"server", "transport"}
           THEN /\ orch' = Logged(<<Call("upload_file", Kind(r)),
                                    Call("resume_upload_session", "ok")>>)
                /\ UNCHANGED <<pc, results, idx>>
           ELSE /\ orch' = Logged(<<Call("upload_file", Kind(r))>>)
                /\ IF result.success
                   THEN pc' = "publish_video" /\ UNCHANGED <<results, idx>>
                   ELSE Finish(result)
    /\ UNCHANGED <<importable, metadata, upload_data, platforms, token_writes, setups, req, video, retry, partials>>

\* FacebookPlatform._upload_video_resumable, step 2
Facebook_upload_file(r) ==
    Step("upload_file", "FacebookPlatform", "upload_file", r,
         FacebookPlatform_upload_file(r), "publish_video")

\* FacebookPlatform._upload_video_resumable, step 3
Facebook_publish_video(r) ==
    LastStep("publish_video", "FacebookPlatform", "publish_video", r,
             FacebookPlatform_publish_video(r))

\* TikTokPlatform.upload_video, step 1
TikTok_initialize_upload(r) ==
    Step("start_session", "TikTokPlatform", "start_session", r,
         TikTokPlatform_initialize_upload(r), "upload_file")

\* TikTokPlatform.upload_video, step 2
TikTok_upload_file(r) ==
    Step("upload_file", "TikTokPlatform", "upload_file", r,
         TikTokPlatform_upload_file(r), "publish_video")

\* TikTokPlatform.upload_video, step 3 and the result built from it
TikTok_publish_video(r) ==
    LET publish_response == TikTokPlatform_publish_video(r)
    IN  LastStep("publish_video", "TikTokPlatform", "publish_video", r,
                 IF publish_response.success
                 THEN Success([platform |-> "tiktok", video_id |-> "id",
                               publish_id |-> publish_response.publish_id])
                 ELSE publish_response)

(***************************************************************************)
(* YouTube: one call of next_chunk() in _resumable_upload, with the sleep  *)
(* that follows a retryable error.                                         *)
(***************************************************************************)
YouTube_next_chunk(r) ==
    /\ pc = "next_chunk"
    /\ platform.cls = "YouTubePlatform"
    /\ LET step == resumable_upload_step(r, retry)
       IN  /\ Kind(r) = "partial" => partials < MaxPartial
           /\ partials' = IF Kind(r) = "partial" THEN partials + 1 ELSE partials
           /\ retry' = step.retry
           /\ orch' = [orch EXCEPT ![idx].calls = Append(@, Call("next_chunk", Kind(r))),
                                   ![idx].delays = IF step.slept > 0
                                                   THEN Append(@, step.slept) ELSE @]
           /\ IF step.do = "again"
              THEN UNCHANGED <<pc, results, idx>>
              ELSE Finish(YouTubePlatform_upload_result(step, r))
    /\ UNCHANGED <<importable, metadata, upload_data, platforms, token_writes, setups, req, video>>

(***************************************************************************)
(* The specifications.                                                     *)
(***************************************************************************)
TokenDrivers == {"FacebookPlatform", "TikTokPlatform"}

\* the steps of one upload, the platforms answering from `answers`, authenticate() of
\* Facebook and TikTok meeting `auths` and that of YouTube `ytauths`
Upload(answers, auths, ytauths) ==
    \/ upload_video_to_platform
    \/ \E in \in auths : manager_authenticate(TokenDrivers, in)
    \/ \E in \in ytauths : manager_authenticate({"YouTubePlatform"}, in)
    \/ \E in \in OtherAuthInputs : manager_authenticate({"OtherPlatform"}, in)
    \/ \E in \in auths : FacebookPlatform_upload_video(in)
    \/ \E in \in auths : TikTokPlatform_upload_video(in)
    \/ YouTubePlatform_upload_video
    \/ \E out \in OtherUploads : OtherPlatform_upload_video(out)
    \/ \E r \in answers : Facebook_start_session(r)
    \/ \E r \in answers : Facebook_upload_file(r)
    \/ \E r \in answers : Facebook_publish_video(r)
    \/ \E r \in answers : TikTok_initialize_upload(r)
    \/ \E r \in answers : TikTok_upload_file(r)
    \/ \E r \in answers : TikTok_publish_video(r)
    \/ \E r \in answers : YouTube_next_chunk(r)
    \/ return_results

\* one upload_video_to_platform call for one name, after some calls of the manager's API
Next ==
    \/ \E g \in Registrations : register_platform(g.name, g.cls)
    \/ \E name \in PlatformNames, in \in AuthInputs :
          authenticate_platform(name, TokenDrivers, in)
    \/ \E name \in PlatformNames, in \in YouTubeAuthInputs :
          authenticate_platform(name, {"YouTubePlatform"}, in)
    \/ \E name \in PlatformNames, in \in OtherAuthInputs :
          authenticate_platform(name, {"OtherPlatform"}, in)
    \/ \E name \in PlatformNames : authenticate_platform_not_found(name)
    \/ \E name \in PlatformNames, f \in FileStates :
          upload_video_to_multiple_platforms(<<name>>, f)
    \/ Upload(Responses, AuthInputs, YouTubeAuthInputs)

Spec == Init /\ [][Next]_vars

\* the upload call runs on once started: every call of a driver returns (the requests
\* carry a timeout) and the code goes to its next statement
Fairness == WF_vars(Upload(Responses, AuthInputs, YouTubeAuthInputs))

LiveSpec == Init /\ [][Next]_vars /\ Fairness

\* the answers and credentials met in a dispatch to several platforms
DispatchResponses == {Http(200, "good"), Http(503, "good")}
DispatchAuthInputs == {[token |-> "complete", probe |-> Http(200, "good")],
                       [token |-> "absent", probe |-> Http(200, "good")]}
DispatchYouTubeAuthInputs == {[secret |-> TRUE, token |-> "valid", ok |-> TRUE, build |-> TRUE],
                              [secret |-> FALSE, token |-> "absent", ok |-> TRUE, build |-> TRUE]}

\* one upload_video_to_multiple_platforms call, after some registrations
NextDispatch ==
    \/ \E g \in Registrations : register_platform(g.name, g.cls)
    \/ \E names \in Requests, f \in FileStates : upload_video_to_multiple_platforms(names, f)
    \/ Upload(DispatchResponses, DispatchAuthInputs, DispatchYouTubeAuthInputs)

SpecDispatch == Init /\ [][NextDispatch]_vars

(***************************************************************************)
(* The caller's interruption: KeyboardInterrupt, the only cancellation the *)
(* program has.  It is raised inside a network call or a sleep, is caught  *)
(* by no `except Exception`, and ends the process in __main__.             *)
(***************************************************************************)
\* mutant of KeyboardInterrupt: the platform in flight gets the outcome "Cancelled" and the
\* dispatch goes on to return its map
KeyboardInterrupt_reported ==
    /\ Suspended
    /\ Finish(Failure("Cancelled", 0))
    /\ UNCHANGED <<importable, metadata, upload_data, platforms, token_writes, setups, req, video, orch, retry, partials>>

\* Ctrl-C while an upload is in flight: the exception leaves upload_video_to_multiple_platforms
\* and main(); __main__ prints "Operation cancelled by user" and exits
KeyboardInterrupt ==
    /\ Suspended
    /\ pc' = "cancelled"
    /\ UNCHANGED <<importable, metadata, upload_data, platforms, token_writes, setups, req, video, idx, results, orch, retry, partials>>

\* one dispatch that the caller may interrupt
NextCancel ==
    \/ NextDispatch
    \/ KeyboardInterrupt

SpecCancel == Init /\ [][NextCancel]_vars

(***************************************************************************)
(* prepare_upload_data of the drivers on the metadata a caller gives.      *)
(***************************************************************************)
\* the metadata a caller can give
MetadataInputs == [title : Titles, description : Descriptions, hashtags : HashtagLists]

InitMetadata ==
    /\ platforms = [n \in {"tiktok", "facebook"} |->
                      NewPlatform(IF n = "tiktok" THEN "TikTokPlatform" ELSE "FacebookPlatform")]
    /\ token_writes = {}
    /\ setups = 0
    /\ pc = "idle"
    /\ req = <<>>
    /\ video = "file"
    /\ idx = 1
    /\ results = <<>>
    /\ orch = <<>>
    /\ retry = 0
    /\ partials = 0
    /\ metadata \in MetadataInputs
    /\ upload_data = <<>>
    /\ importable = {"tiktok", "facebook"}

\* upload_data with the entry of a driver
Prepared(name, data) ==
    [n \in DOMAIN upload_data \cup {name} |-> IF n = name THEN data ELSE upload_data[n]]

\* FacebookPlatform.prepare_upload_data(title, description, hashtags=hashtags)
Facebook_prepare_upload_data ==
    /\ "facebook" \notin DOMAIN upload_data
    /\ upload_data' = Prepared("facebook",
                               FacebookPlatform_prepare_upload_data(
                                   metadata.title, metadata.description, metadata.hashtags))
    /\ UNCHANGED <<platforms, token_writes, setups, pc, req, video, idx, results, orch, retry,
                   partials, metadata, importable>>

\* TikTokPlatform.prepare_upload_data(title, description, hashtags=hashtags)
TikTok_prepare_upload_data ==
    /\ "tiktok" \notin DOMAIN upload_data
    /\ upload_data' = Prepared("tiktok",
                               TikTokPlatform_prepare_upload_data(
                                   metadata.title, metadata.description, metadata.hashtags))
    /\ UNCHANGED <<platforms, token_writes, setups, pc, req, video, idx, results, orch, retry,
                   partials, metadata, importable>>

NextMetadata == Facebook_prepare_upload_data \/ TikTok_prepare_upload_data

SpecMetadata == InitMetadata /\ [][NextMetadata]_vars

(***************************************************************************)
(* The description TikTok's publish is sent, on texts about as long as the *)
(* platform's limit.                                                       *)
(***************************************************************************)
\* how far under and over the limit the descriptions given are
MaxOver == 6

\* a text of n characters without spaces, its characters alternating
Text(n) == [p \in 1..n |-> IF p % 2 = 1 THEN "x" ELSE "y"]

\* descriptions about as long as the limit
LongDescriptions ==
    {Some(Text(n)) : n \in (DescriptionLimit - MaxOver)..(DescriptionLimit + MaxOver)}

\* the metadata of a long post: no title or a short one, no tag or one
LongMetadataInputs ==
    [title : {None, Some(<<"a">>), Some(<<"a", "b">>)},
     description : LongDescriptions,
     hashtags : {None, Some(<<<<"t">>>>)}]

InitDescription ==
    /\ platforms = [n \in {"tiktok", "facebook"} |->
                      NewPlatform(IF n = "tiktok" THEN "TikTokPlatform" ELSE "FacebookPlatform")]
    /\ token_writes = {}
    /\ setups = 0
    /\ pc = "idle"
    /\ req = <<>>
    /\ video = "file"
    /\ idx = 1
    /\ results = <<>>
    /\ orch = <<>>
    /\ retry = 0
    /\ partials = 0
    /\ metadata \in LongMetadataInputs
    /\ upload_data = <<>>
    /\ importable = {"tiktok", "facebook"}

\* TikTokPlatform.upload_video, step 3: the description is formatted and _publish_video
\* builds the body of its request from it
TikTok_publish_data ==
    /\ "publish" \notin DOMAIN upload_data
    /\ upload_data' = Prepared("publish",
                               TikTokPlatform_publish_data(
                                   TikTokPlatform_format_description(
                                       metadata.title, metadata.description, metadata.hashtags)))
    /\ UNCHANGED <<platforms, token_writes, setups, pc, req, video, idx, results, orch, retry,
                   partials, metadata, importable>>

NextDescription == TikTok_publish_data

SpecDescription == InitDescription /\ [][NextDescription]_vars

(***************************************************************************)
(* The construction of the manager and its API before an upload:           *)
(* _initialize_platforms statement by statement, register_platform and     *)
(* authenticate_all_platforms.                                             *)
(***************************************************************************)
\* before PlatformManager.__init__ calls _initialize_platforms: the registry is empty and
\* each of the two platform modules can be imported or not
InitSetup ==
    /\ platforms = <<>>
    /\ token_writes = {}
    /\ setups = 0
    /\ pc = "import_tiktok"
    /\ req = <<>>
    /\ video = "file"
    /\ idx = 1
    /\ results = <<>>
    /\ orch = <<>>
    /\ retry = 0
    /\ partials = 0
    /\ metadata = [title |-> Some(<<"a">>), description |-> Some(<<>>), hashtags |-> None]
    /\ upload_data = <<>>
    /\ importable \in SUBSET {"tiktok", "facebook"}

\* the frame of the statements of _initialize_platforms
InitializeFrame ==
    UNCHANGED <<token_writes, setups, req, video, idx, results, orch, retry, partials,
                metadata, upload_data, importable>>

\* _initialize_platforms: the import of TikTokPlatform and its registration; an ImportError
\* leaves the try block
initialize_tiktok ==
    /\ pc = "import_tiktok"
    /\ IF "tiktok" \in importable
       THEN /\ platforms' = Registry("tiktok", "TikTokPlatform")
            /\ pc' = "import_facebook"
       ELSE /\ pc' = "idle"
            /\ UNCHANGED platforms
    /\ InitializeFrame

\* _initialize_platforms: the import of FacebookPlatform and its registration
initialize_facebook ==
    /\ pc = "import_facebook"
    /\ IF "facebook" \in importable
       THEN platforms' = Registry("facebook", "FacebookPlatform")
       ELSE UNCHANGED platforms
    /\ pc' = "idle"
    /\ InitializeFrame

\* the registrations a caller makes, with one whose constructor raises
SetupRegistrations == Registrations \cup {[name |-> "broken", cls |-> "BrokenPlatform"]}

\* the orders in which self.platforms.items() can give the registered names (the order of
\* insertion is one of them)
ItemOrders ==
    {order \in [1..Cardinality(DOMAIN platforms) -> DOMAIN platforms] :
        \A j, k \in DOMAIN order : j # k => order[j] # order[k]}

\* PlatformManager.authenticate_all_platforms up to its loop; req is the list iterated and
\* results the dictionary of booleans being filled
authenticate_all_platforms(order) ==
    /\ pc = "idle"
    /\ setups < MaxSetup
    /\ setups' = setups + 1
    /\ req' = order
    /\ idx' = 1
    /\ results' = <<>>
    /\ pc' = "authenticate_all"
    /\ UNCHANGED <<platforms, token_writes, video, orch, retry, partials, metadata, upload_data,
                   importable>>

\* mutant of the loop: platform.authenticate() is called outside any try, its exception
\* leaves authenticate_all_platforms
authenticate_all_step_uncaught(classes, in) ==
    /\ pc = "authenticate_all"
    /\ idx <= Len(req)
    /\ platforms[req[idx]].cls \in classes
    /\ LET a == authenticate(platforms[req[idx]], in)
       IN  /\ platforms' = [platforms EXCEPT ![req[idx]] = a.plat]
           /\ token_writes' = IF a.saved THEN token_writes \cup {req[idx]} ELSE token_writes
           /\ IF a.raised
              THEN pc' = "raised" /\ UNCHANGED <<results, idx>>
              ELSE /\ results' = Put(req[idx], a.ok)
                   /\ idx' = idx + 1
                   /\ UNCHANGED pc
    /\ UNCHANGED <<setups, req, video, orch, retry, partials, metadata, upload_data, importable>>

\* one pass of the loop of authenticate_all_platforms on an instance of one of `classes`:
\* results[name] = platform.authenticate(), False when it raised
authenticate_all_step(classes, in) ==
    /\ pc = "authenticate_all"
    /\ idx <= Len(req)
    /\ platforms[req[idx]].cls \in classes
    /\ LET a == authenticate(platforms[req[idx]], in)
       IN  /\ platforms' = [platforms EXCEPT ![req[idx]] = a.plat]
           /\ token_writes' = IF a.saved THEN token_writes \cup {req[idx]} ELSE token_writes
           /\ results' = Put(req[idx], IF a.raised THEN FALSE ELSE a.ok)
    /\ idx' = idx + 1
    /\ UNCHANGED <<pc, setups, req, video, orch, retry, partials, metadata, upload_data,
                   importable>>

\* `return results` of authenticate_all_platforms
authenticate_all_return ==
    /\ pc = "authenticate_all"
    /\ idx > Len(req)
    /\ pc' = "authenticated_all"
    /\ UNCHANGED <<platforms, token_writes, setups, req, video, idx, results, orch, retry,
                   partials, metadata, upload_data, importable>>

NextSetup ==
    \/ initialize_tiktok
    \/ initialize_facebook
    \/ \E g \in SetupRegistrations : register_platform(g.name, g.cls)
    \/ \E order \in ItemOrders : authenticate_all_platforms(order)
    \/ \E in \in AuthInputs : authenticate_all_step(TokenDrivers, in)
    \/ \E in \in YouTubeAuthInputs : authenticate_all_step({"YouTubePlatform"}, in)
    \/ \E in \in OtherAuthInputs : authenticate_all_step({"OtherPlatform"}, in)
    \/ authenticate_all_return

SpecSetup == InitSetup /\ [][NextSetup]_vars

(***************************************************************************)
(* Properties.                                                             *)
(***************************************************************************)
Last(seq) == seq[Len(seq)]

\* the positions of req whose pass of the loop has ended
Finished == {i \in 1..Len(orch) : i < idx}

\* the names requested
Requested == {req[i] : i \in 1..Len(req)}

\* how many calls of `op` a log holds, and how many with an answer among `outs`
Count(calls, op) == Cardinality({k \in 1..Len(calls) : calls[k].op = op})
CountOut(calls, op, outs) ==
    Cardinality({k \in 1..Len(calls) : calls[k].op = op /\ calls[k].out \in outs})

\* the operations of an upload that reach the platform
UploadOps == {"start_session", "upload_file", "publish_video", "next_chunk", "upload_video"}

\* an orchestration that ran every operation it made with success, up to the last one of
\* its driver
SucceededEveryPhase(o) ==
    /\ o.calls # <<>>
    /\ \A k \in 1..Len(o.calls) : o.calls[k].out \in {"ok", "valid", "success"}
    /\ Last(o.calls).op \in {"publish_video", "next_chunk", "upload_video"}

\* an orchestration whose session start failed
FailedAtSessionStart(o) ==
    /\ o.calls # <<>>
    /\ Last(o.calls).op = "start_session"
    /\ Last(o.calls).out # "ok"

\* C1: when upload_video_to_multiple_platforms returns, its result map has exactly the
\* requested names as keys, each with one outcome (a dictionary with a success flag),
\* however many of the platforms failed; names that differ are never merged into one entry.
C1_CompleteResultMap ==
    /\ pc = "done" =>
         /\ DOMAIN results = Requested
         /\ \A n \in Requested : "success" \in DOMAIN results[n]
    /\ pc \in {"next", "done"} => DOMAIN results = {req[i] : i \in 1..(idx - 1)}

\* C1 witness: a dispatch to two different names has returned, both failed, two entries
C1_Witness ==
    /\ pc = "done"
    /\ Len(req) = 2
    /\ req[1] # req[2]
    /\ Cardinality(DOMAIN results) = 2
    /\ \A n \in DOMAIN results : ~results[n].success

\* C2: in a dispatch to two names A and B, in either order, where A's session start failed
\* and B's driver succeeded at every phase, the map returned has two entries, A's failed
\* and B's successful.
C2_NoShortCircuit ==
    \A a, b \in 1..Len(req) :
       ( /\ Len(req) = 2
         /\ a # b
         /\ req[a] # req[b]
         /\ pc = "done"
         /\ a \in 1..Len(orch)
         /\ FailedAtSessionStart(orch[a]) )
       => /\ Len(orch) = 2
          /\ Cardinality(DOMAIN results) = 2
          /\ ~results[req[a]].success
          /\ SucceededEveryPhase(orch[b]) => results[req[b]].success

\* C2 witness: A first, failed at session start; B second, successful
C2_Witness ==
    /\ pc = "done"
    /\ Len(req) = 2
    /\ req[1] # req[2]
    /\ FailedAtSessionStart(orch[1])
    /\ SucceededEveryPhase(orch[2])
    /\ ~results[req[1]].success
    /\ results[req[2]].success

\* an operation of the orchestration raised
Raised(o) == \E k \in 1..Len(o.calls) : o.calls[k].out \in {"raised", "raise"}

\* C3 (as claimed): when a platform's authenticate or upload_video raises during a dispatch
\* with other platforms still to run, the dispatch goes on: it is not ended by the
\* exception, and once it has returned the map holds a failed outcome for the platform
\* that raised and an outcome for every other requested platform.
C3_ExceptionIsolated ==
    \A i \in 1..Len(orch) :
       (Raised(orch[i]) /\ i < Len(req)) =>
          /\ pc # "raised"
          /\ pc = "done" => /\ DOMAIN results = Requested
                            /\ ~results[req[i]].success

\* C4, the state part: a requested name without a registered driver gets the failure
\* "Platform not found" and no driver operation is invoked for it.
C4_Unavailable ==
    \A i \in 1..Len(orch) :
       ~Registered(req[i]) =>
          /\ orch[i].calls = <<>>
          /\ orch[i].delays = <<>>
          /\ i \in Finished
          /\ req[i] \in DOMAIN results
          /\ results[req[i]] = Failure("Platform not found", 0)

\* C4, the step part: the pass of the loop for such a name changes no driver, no token
\* file and no other entry of the map, and the loop goes on with the next name.
C4_OthersUnaffected ==
    (pc = "next" /\ idx <= Len(req) /\ ~Registered(req[idx])) =>
       /\ platforms' = platforms
       /\ token_writes' = token_writes
       /\ pc' = "next"
       /\ idx' = idx + 1
       /\ \A n \in DOMAIN results \ {req[idx]} : n \in DOMAIN results' /\ results'[n] = results[n]

\* C4: an unregistered name fails at once with "Platform not found", without any driver
\* operation, and leaves the other requested platforms as if it had not been requested.
C4_PlatformUnavailable == []C4_Unavailable /\ [][C4_OthersUnaffected]_vars

\* C4 witness: a dispatch has returned in which an unregistered name came first and a
\* registered driver then ran its upload to success
C4_Witness ==
    /\ pc = "done"
    /\ Len(req) = 2
    /\ ~Registered(req[1])
    /\ Registered(req[2])
    /\ results[req[1]] = Failure("Platform not found", 0)
    /\ SucceededEveryPhase(orch[2])
    /\ results[req[2]].success

(***************************************************************************)
(* Properties of one upload (Spec: one requested name, position 1).        *)
(***************************************************************************)
\* the drivers of the repository
RepositoryDrivers == {"TikTokPlatform", "FacebookPlatform", "YouTubePlatform"}

\* the messages of the invalid-file and of the authentication failures
InvalidFileErrors == {"Invalid video file", "Archivo de video invalido"}
AuthenticationErrors == {"Authentication failed", "Fallo la autenticacion", "Not authenticated"}

\* the orchestrations, ended, of a registered driver of the repository on a file that
\* does not pass validate_video_file
OnInvalidAsset ==
    {i \in Finished : /\ video \in {"missing", "directory", "empty"}
                      /\ Registered(req[i])
                      /\ get_platform(req[i]).cls \in RepositoryDrivers}

\* C5 (as claimed): on an asset that is missing, not a regular file or empty, the
\* orchestration ends in the invalid-file failure and authenticate is never invoked,
\* also when the driver is not yet authenticated.
C5_ValidatedBeforeAuthentication ==
    \A i \in OnInvalidAsset :
       /\ Count(orch[i].calls, "authenticate") = 0
       /\ ~results[req[i]].success
       /\ results[req[i]].error.msg \in InvalidFileErrors

\* C5 (amended): on such an asset no session start, transfer or publish is invoked and
\* the orchestration ends in failure; the file is validated at most once and only after
\* authentication: a driver not yet authenticated has authenticate invoked first, once,
\* and the outcome is the authentication failure when it fails, the invalid-file failure
\* otherwise.
C5_ValidatedAfterAuthentication ==
    \A i \in OnInvalidAsset :
       LET calls == orch[i].calls
       IN  /\ \A k \in 1..Len(calls) : calls[k].op \in {"authenticate", "validate_video_file"}
           /\ Len(calls) \in {1, 2}
           /\ Len(calls) = 2 => calls[1].op = "authenticate" /\ calls[1].out # "raised"
           /\ Count(calls, "validate_video_file") <= 1
           /\ ~results[req[i]].success
           /\ IF Last(calls).op = "validate_video_file"
              THEN /\ Last(calls).out = "invalid"
                   /\ results[req[i]].error.msg \in InvalidFileErrors
              ELSE results[req[i]].error.msg \in AuthenticationErrors

\* C5 witness: an empty file, a driver not yet authenticated: authenticate was invoked and
\* succeeded, then the validation failed the upload
C5_Witness ==
    /\ pc = "done"
    /\ video = "empty"
    /\ 1 \in OnInvalidAsset
    /\ Len(orch[1].calls) = 2
    /\ orch[1].calls[1].op = "authenticate"
    /\ orch[1].calls[2] = Call("validate_video_file", "invalid")
    /\ results[req[1]].error.msg \in InvalidFileErrors

\* the answers that are transient failures
Transient == {"server", "transport"}

\* C6: in every orchestration the retries of a phase (the delays slept) are at most 3 and
\* the attempts of its driver operation that met a transient failure at most 4; session
\* start, transfer and publish of Facebook and TikTok are attempted at most 4 times, and
\* next_chunk at most 4 times besides the calls answered "incomplete".
C6_RetriesBounded ==
    \A i \in 1..Len(orch) :
       LET calls == orch[i].calls
       IN  /\ Len(orch[i].delays) <= 3
           /\ \A op \in UploadOps :
                /\ CountOut(calls, op, Transient) <= 4
                /\ Count(calls, op) - CountOut(calls, op, {"partial"}) <= 4

\* C6 witness: an upload ended after four attempts that all met a server error, with
\* three retries
C6_Witness ==
    /\ pc = "done"
    /\ CountOut(orch[1].calls, "next_chunk", {"server"}) = 4
    /\ Count(orch[1].calls, "next_chunk") = 4
    /\ Len(orch[1].delays) = 3
    /\ ~results[req[1]].success

\* C7: the delays slept in one orchestration are 2, 4, 8 in this order (retry k waits
\* 2^k), one after each retryable failure but the one that exhausts the budget.
C7_BackoffDelays ==
    \A i \in 1..Len(orch) :
       LET delays == orch[i].delays
           failures == CountOut(orch[i].calls, "next_chunk", {"server"})
       IN  /\ Len(delays) <= 3
           /\ \A k \in 1..Len(delays) : delays[k] = <<2, 4, 8>>[k]
           /\ \A k \in 2..Len(delays) : delays[k] > delays[k - 1]
           /\ Len(delays) = IF failures = 4 THEN 3 ELSE failures

\* C7 witness: 2, 4 and 8 were waited, and nothing after the fourth failure
C7_Witness ==
    /\ pc = "done"
    /\ orch[1].delays = <<2, 4, 8>>
    /\ Last(orch[1].calls) = Call("next_chunk", "server")
    /\ CountOut(orch[1].calls, "next_chunk", {"server"}) = 4

\* the answers given to the calls of `op`, in order
RECURSIVE Answers(_, _)
Answers(calls, op) ==
    IF calls = <<>> THEN <<>>
    ELSE IF calls[1].op = op THEN <<calls[1].out>> \o Answers(Tail(calls), op)
    ELSE Answers(Tail(calls), op)

\* the transfer operation of the driver
TransferOps == {"upload_file", "next_chunk"}

\* every call but those of the transfer succeeded
OtherPhasesSucceeded(calls) ==
    \A k \in 1..Len(calls) :
       calls[k].op \notin TransferOps => calls[k].out \in {"ok", "valid", "refreshed", "oauth flow"}

\* C8 (as claimed): with every driver, a transfer that meets a server error on three
\* consecutive attempts and succeeds on the fourth ends in success: no orchestration ends
\* on the first, second or third server error of its transfer, and one whose transfer was
\* answered server error, server error, server error, success (the other phases having
\* succeeded) has a successful outcome.
C8_TransferRetriedByEveryDriver ==
    \A i \in Finished : \A op \in TransferOps :
       LET answers == Answers(orch[i].calls, op)
       IN  /\ ( /\ answers # <<>>
                /\ Len(answers) <= 3
                /\ \A k \in 1..Len(answers) : answers[k] = "server" )
              => Last(orch[i].calls).op # op
           /\ ( /\ answers = <<"server", "server", "server", "ok">>
                /\ OtherPhasesSucceeded(orch[i].calls) )
              => results[req[i]].success

\* C8 (amended): with the YouTube driver, a transfer answered by a retryable server error
\* on three consecutive attempts and by success on the fourth ends in success, and a
\* transfer answered by server errors only is given up at the fourth, not before; the
\* Facebook and TikTok drivers attempt the transfer once, and a server error on it ends
\* the orchestration in failure.
C8_TransferRetriedByYouTube ==
    \A i \in Finished :
       LET calls == orch[i].calls
           chunks == Answers(calls, "next_chunk")
           files == Answers(calls, "upload_file")
       IN  /\ chunks = <<"server", "server", "server", "ok">>
                => /\ results[req[i]].success
                   /\ orch[i].delays = <<2, 4, 8>>
           /\ (chunks # <<>> /\ \A k \in 1..Len(chunks) : chunks[k] = "server")
                => Len(chunks) = 4 /\ ~results[req[i]].success
           /\ Len(files) <= 1
           /\ files = <<"server">>
                => /\ Last(calls).op = "upload_file"
                   /\ ~results[req[i]].success
                   /\ results[req[i]].error.status \in 500..599

\* C8 witness: YouTube's transfer failed three times with a server error, succeeded on the
\* fourth attempt, and the outcome is success
C8_Witness ==
    /\ pc = "done"
    /\ Registered(req[1])
    /\ get_platform(req[1]).cls = "YouTubePlatform"
    /\ Answers(orch[1].calls, "next_chunk") = <<"server", "server", "server", "ok">>
    /\ results[req[1]].success

\* C9 (as claimed): an orchestration whose publish is answered by a server error on every
\* attempt ends in failure after exactly 4 publish attempts, session start and transfer
\* having been invoked exactly once each.
C9_PublishRetried ==
    \A i \in Finished :
       LET calls == orch[i].calls
       IN  (calls # <<>> /\ Last(calls) = Call("publish_video", "server"))
           => /\ Count(calls, "publish_video") = 4
              /\ Count(calls, "start_session") = 1
              /\ Count(calls, "upload_file") = 1
              /\ ~results[req[i]].success

\* C9 (amended): an orchestration whose publish is answered by a server error ends in
\* failure, with the status in its error, after exactly 1 publish attempt (neither
\* Facebook nor TikTok retries the publish), session start and transfer having been
\* invoked exactly once each.
C9_PublishNotRetried ==
    \A i \in 1..Len(orch) :
       LET calls == orch[i].calls
       IN  /\ Count(calls, "publish_video") <= 1
           /\ CountOut(calls, "publish_video", {"server"}) > 0
              => /\ i \in Finished
                 /\ Last(calls) = Call("publish_video", "server")
                 /\ Count(calls, "publish_video") = 1
                 /\ Count(calls, "start_session") = 1
                 /\ Count(calls, "upload_file") = 1
                 /\ ~results[req[i]].success
                 /\ results[req[i]].error.status \in 500..599

\* C9 witness: session start and transfer succeeded, the publish met a server error, and
\* the upload has failed
C9_Witness ==
    /\ pc = "done"
    /\ Answers(orch[1].calls, "start_session") = <<"ok">>
    /\ Answers(orch[1].calls, "upload_file") = <<"ok">>
    /\ Answers(orch[1].calls, "publish_video") = <<"server">>
    /\ ~results[req[1]].success

\* C10 (as claimed): a transport failure during a phase is transient: no orchestration
\* ends on the first transport failure of a phase.
C10_TransportRetried ==
    \A i \in Finished :
       LET calls == orch[i].calls
       IN  (calls # <<>> /\ Last(calls).out = "transport")
           => CountOut(calls, Last(calls).op, {"transport"}) > 1

\* C10 (amended): a transport failure during a phase is final in every driver: the phase
\* is not attempted again, no delay is waited after it, and the orchestration ends in
\* failure on the first such error.
C10_TransportFinal ==
    \A i \in 1..Len(orch) :
       LET calls == orch[i].calls
       IN  \A k \in 1..Len(calls) :
              calls[k].out = "transport"
              => /\ k = Len(calls)
                 /\ i \in Finished
                 /\ CountOut(calls, calls[k].op, {"transport"}) = 1
                 /\ Len(orch[i].delays) = CountOut(calls, calls[k].op, {"server"})
                 /\ ~results[req[i]].success

\* C10 witness: a resumable upload that had been retried once after a server error ended
\* on a transport failure
C10_Witness ==
    /\ pc = "done"
    /\ Answers(orch[1].calls, "next_chunk") = <<"server", "transport">>
    /\ orch[1].delays = <<2>>
    /\ ~results[req[1]].success

(***************************************************************************)
(* Failures that are not retried, and what a failed outcome carries.       *)
(***************************************************************************)
\* the answers that are structural or client-side failures: a status 4xx, a credential
\* that is absent or incomplete
Structural == {"client", "no token", "missing field", "no client secret"}

\* C11: a driver operation answered by a structural or client-side failure is the last
\* operation of its orchestration: the phase is not attempted again, no later phase is
\* invoked, no delay is waited for it, and the orchestration has ended in failure.
C11_ClientFailureFinal ==
    \A i \in 1..Len(orch) :
       LET calls == orch[i].calls
       IN  \A k \in 1..Len(calls) :
              calls[k].out \in Structural
              => /\ k = Len(calls)
                 /\ i \in Finished
                 /\ Count(calls, calls[k].op) = 1 + CountOut(calls, calls[k].op, {"server", "partial"})
                 /\ Len(orch[i].delays) = CountOut(calls, calls[k].op, {"server"})
                 /\ ~results[req[i]].success

\* C11 witness: a resumable upload retried once after a server error was answered 400 and
\* has failed at once, with the one delay of the retry only
C11_Witness ==
    /\ pc = "done"
    /\ Answers(orch[1].calls, "next_chunk") = <<"server", "client">>
    /\ orch[1].delays = <<2>>
    /\ results[req[1]] = Failure("YouTube API error", 400)

\* C12 (as claimed): an orchestration that has ended because the retries of its transfer
\* were used up has a failed outcome that carries the last error met, a server error with
\* its retryable status.
C12_LastErrorCarried ==
    \A i \in Finished :
       CountOut(orch[i].calls, "next_chunk", {"server"}) = max_retries + 1
       => /\ ~results[req[i]].success
          /\ results[req[i]].error.status \in RetryableStatuses

(***************************************************************************)
(* The order of the phases.                                                *)
(***************************************************************************)
\* the place of a driver operation in the order of the phases: authentication, (the
\* validation of the file), session start, transfer, publish
Phase(op) ==
    IF op = "authenticate" THEN 1
    ELSE IF op = "validate_video_file" THEN 2
    ELSE IF op \in {"start_session", "upload_video"} THEN 3
    ELSE IF op \in {"upload_file", "next_chunk"} THEN 4
    ELSE 5

\* the answers with which an operation has succeeded
Succeeded == {"ok", "valid", "refreshed", "oauth flow"}

\* the call has succeeded for a driver of class cls (TikTok's _upload_file does not read
\* the body of the answer: status 200 or 201 is its success; to every other request of
\* Facebook and TikTok only status 200 is; next_chunk returns the response of any 2xx
\* answer and the one with an 'id' is YouTube's success)
HasSucceeded(cls, call) ==
    \/ call.out \in Succeeded
    \/ cls = "TikTokPlatform" /\ call.op = "upload_file" /\ call.out \in {"malformed", "created"}
    \/ cls = "YouTubePlatform" /\ call.op = "next_chunk" /\ call.out = "created"

\* C13, the order: in the calls of one orchestration a call is never of an earlier phase
\* than the call before it; a call of a later phase follows a call that succeeded, the
\* session start follows the validation, the transfer of Facebook and TikTok the session
\* start and the publish the transfer; a call of the same phase is a further next_chunk
\* after a retryable error or an incomplete answer.
C13_Order ==
    \A i \in 1..Len(orch) :
       LET calls == orch[i].calls
       IN  \A k \in 2..Len(calls) :
              LET a == calls[k - 1]
                  b == calls[k]
              IN  /\ Phase(b.op) >= Phase(a.op)
                  /\ Phase(b.op) > Phase(a.op) => HasSucceeded(get_platform(req[i]).cls, a)
                  /\ Phase(b.op) = Phase(a.op)
                       => a.op = "next_chunk" /\ b.op = "next_chunk"
                          /\ a.out \in {"server", "partial"}
                  /\ b.op = "start_session" => a = Call("validate_video_file", "valid")
                  /\ b.op = "upload_file" => a = Call("start_session", "ok")
                  /\ b.op = "publish_video" => a.op = "upload_file"

\* C13, the end: an orchestration that has ended, in success or in failure, gets no further
\* driver operation and no further delay.
C13_Terminal ==
    \A i \in Finished : i \in 1..Len(orch') /\ orch'[i] = orch[i]

\* C13: the phases of an orchestration are entered in the order authentication, session
\* start, transfer, publish, each after the one before it has succeeded, none again after
\* a later one, and nothing is invoked once the orchestration has ended.
C13_PhasesInOrder == []C13_Order /\ [][C13_Terminal]_vars

\* C13 witness: a Facebook upload went through authentication, validation, session start,
\* transfer and publish, in this order, and another orchestration ran after it
C13_Witness ==
    /\ pc = "done"
    /\ Len(orch) = 2
    /\ orch[1].calls = <<Call("authenticate", "ok"), Call("validate_video_file", "valid"),
                         Call("start_session", "ok"), Call("upload_file", "ok"),
                         Call("publish_video", "ok")>>
    /\ orch[2].calls # <<>>
    /\ results[req[1]].success

(***************************************************************************)
(* Termination.                                                            *)
(***************************************************************************)
\* an upload call is running
InFlight == pc \notin {"idle", "done", "raised"}

\* the upload call has returned with an outcome for every requested name
Returned == pc = "done" /\ \A i \in 1..Len(req) : req[i] \in DOMAIN results

TransferRanges(o) ==
    [k \in 1..Count(o.calls, "upload_file") |-> upload_file_range(video)]

\* the bytes of a sequence of ranges
RECURSIVE TotalBytes(_)
TotalBytes(ranges) ==
    IF ranges = <<>> THEN 0
    ELSE (ranges[1].to - ranges[1].from) + TotalBytes(Tail(ranges))

\* C15: in every orchestration the transfer requests carry byte ranges that start where
\* the one before ended or later (no range overlaps another or comes out of order), and
\* the publish is invoked only when the ranges sent add up to the size of the file, the
\* transfer having succeeded.
C15_OffsetsMonotonic ==
    \A i \in 1..Len(orch) :
       LET ranges == TransferRanges(orch[i])
       IN  /\ \A k \in 1..Len(ranges) : ranges[k].from <= ranges[k].to
           /\ \A k \in 2..Len(ranges) : ranges[k].from >= ranges[k - 1].to
           /\ Count(orch[i].calls, "publish_video") > 0
              => /\ TotalBytes(ranges) = getsize(video)
                 /\ getsize(video) > 0
                 /\ HasSucceeded(get_platform(req[i]).cls,
                                 Last(SelectSeq(orch[i].calls, LAMBDA c : c.op = "upload_file")))

\* C15 witness: a Facebook upload has published after one transfer of the whole file from
\* offset 0
C15_Witness ==
    /\ pc = "done"
    /\ Registered(req[1])
    /\ get_platform(req[1]).cls = "FacebookPlatform"
    /\ TransferRanges(orch[1]) = <<[from |-> 0, to |-> VideoBytes]>>
    /\ Last(orch[1].calls) = Call("publish_video", "ok")

C17_CancelledReported ==
    pc = "cancelled"
    => /\ req[idx] \in DOMAIN results
       /\ ~results[req[idx]].success
       /\ results[req[idx]].error.msg = "Cancelled"

\* C17 (amended), the state part: no outcome is ever "Cancelled"; when the caller has
\* interrupted the dispatch, the platform in flight and those after it have got no outcome
\* of this pass: the map holds the outcomes of the platforms that had ended before.
C17_NoCancelledOutcome ==
    /\ \A n \in DOMAIN results : results[n].success \/ results[n].error.msg # "Cancelled"
    /\ pc = "cancelled"
       => /\ idx \in 1..Len(req)
          /\ Len(orch) = idx
          /\ DOMAIN results = {req[i] : i \in 1..(idx - 1)}

\* C17 (amended), the step part: after the interruption nothing more happens: no driver
\* operation, no further platform, and the map is not returned.
C17_NothingAfter == pc # "cancelled"

\* C17 (amended): the caller's interruption (KeyboardInterrupt) abandons the dispatch; the
\* platform in flight gets no outcome, Cancelled or other, the remaining platforms are not
\* run and the result map, with the outcomes of the platforms that had ended, is not
\* returned.
C17_DispatchAbandoned == []C17_NoCancelledOutcome /\ [][C17_NothingAfter]_vars

\* C17 witness: the first platform had succeeded and the second was waiting in a backoff
\* delay when the caller interrupted
C17_Witness ==
    /\ pc = "cancelled"
    /\ idx = 2
    /\ results[req[1]].success
    /\ orch[2].delays # <<>>
    /\ req[2] \notin DOMAIN results

(***************************************************************************)
(* One platform at a time.                                                 *)
(***************************************************************************)
\* C18 (as claimed): while a platform's orchestration is suspended in a driver call or a
\* backoff delay and another requested platform has not begun, the program can begin the
\* other platform's orchestration.
C18_OthersNotBlocked ==
    (Suspended /\ idx < Len(req)) => ENABLED (NextDispatch /\ Len(orch') > Len(orch))

\* C18 (amended): the platforms are run one after another in the order of the request:
\* while one orchestration is at a driver call or in a backoff delay, every platform
\* before it has ended, no platform after it has begun, and the outcomes available are
\* those of the platforms before it only; a platform begins when the one before it has
\* ended.
C18_OneAtATime ==
    /\ Len(orch) <= Len(req)
    /\ \A i \in 1..Len(orch) : orch[i].name = req[i]
    /\ \A i \in 1..Len(orch) : i < Len(orch) => i \in Finished
    /\ Suspended
       => /\ Len(orch) = idx
          /\ DOMAIN results = {req[i] : i \in 1..(idx - 1)}
    /\ pc \in {"next", "done"} => Len(orch) = idx - 1

\* C18 witness: the first of two platforms is waiting in a backoff delay; the second has
\* not begun and no outcome is available
C18_Witness ==
    /\ pc = "next_chunk"
    /\ Len(req) = 2
    /\ idx = 1
    /\ orch[1].delays # <<>>
    /\ Len(orch) = 1
    /\ results = <<>>

(***************************************************************************)
(* The driver instances.                                                   *)
(***************************************************************************)
\* the orchestration at position j authenticated its driver
Authenticated(j) ==
    \E k \in 1..Len(orch[j].calls) :
       orch[j].calls[k].op = "authenticate" /\ orch[j].calls[k].out \in Succeeded

FirstAttemptSuccess(i) ==
    /\ Registered(req[i])
    /\ get_platform(req[i]).cls \in RepositoryDrivers
    /\ orch[i].calls # <<>>
    /\ \A k \in 1..Len(orch[i].calls) : orch[i].calls[k].out \in Succeeded
    /\ Last(orch[i].calls).op \in {"publish_video", "next_chunk"}

\* C20 (as claimed): the outcome of an orchestration that succeeded at the first attempt of
\* every phase has success = true, the content identifier and the public URL; a failed
\* outcome has a failure kind and a detail.
C20_IdentifierAndUrl ==
    \A i \in Finished :
       LET outcome == results[req[i]]
       IN  /\ FirstAttemptSuccess(i)
              => /\ outcome.success
                 /\ {"video_id", "video_url"} \subseteq DOMAIN outcome
           /\ ~outcome.success => {"kind", "error"} \subseteq DOMAIN outcome

\* C20 (amended): the outcome of an orchestration that succeeded at the first attempt of
\* every phase has success = true, the platform's name and the video identifier the
\* platform returned; only YouTube's has a URL ('video_url'); a failed outcome has the two
\* fields 'success' and 'error', the error being a text, and no failure kind.
C20_OutcomeFields ==
    \A i \in Finished :
       LET outcome == results[req[i]]
       IN  /\ FirstAttemptSuccess(i)
              => /\ outcome.success
                 /\ outcome.video_id = "id"
           /\ (outcome.success /\ Registered(req[i])
                 /\ get_platform(req[i]).cls \in RepositoryDrivers)
              => /\ {"video_id", "platform"} \subseteq DOMAIN outcome
                 /\ outcome.platform = lower(req[i])
                 /\ "video_url" \in DOMAIN outcome
                    <=> get_platform(req[i]).cls = "YouTubePlatform"
           /\ ~outcome.success => DOMAIN outcome = {"success", "error"}

\* C20 witness: a YouTube upload that succeeded at its first next_chunk has returned its
\* identifier and URL
C20_Witness ==
    /\ pc = "done"
    /\ FirstAttemptSuccess(1)
    /\ Answers(orch[1].calls, "next_chunk") = <<"ok">>
    /\ results[req[1]].success
    /\ results[req[1]].video_id = "id"
    /\ results[req[1]].video_url = "https://www.youtube.com/watch?v=id"

(***************************************************************************)
(* The credential store.                                                   *)
(***************************************************************************)
\* the orchestrations, ended, of a driver of the repository whose authenticate() found no
\* token in the store
OnAbsentCredential ==
    {i \in Finished : /\ orch[i].found = "absent"
                      /\ Registered(req[i])
                      /\ get_platform(req[i]).cls \in RepositoryDrivers}

\* C21 (as claimed): when the store holds no token for the platform, authenticate fails,
\* the outcome is the authentication failure and no other driver operation is invoked.
C21_AbsentIsUnauthenticated ==
    \A i \in OnAbsentCredential :
       /\ orch[i].calls = <<Call("authenticate", orch[i].calls[1].out)>>
       /\ orch[i].calls[1].out \notin Succeeded
       /\ ~results[req[i]].success
       /\ results[req[i]].error.msg \in AuthenticationErrors

\* C21 (amended): when the store holds no token for the platform, the authenticate of
\* TikTok and Facebook fails without any request, the outcome is the authentication
\* failure and no other operation is invoked; the authenticate of YouTube fails in this way
\* only when the client secret is absent, the interactive authorization fails or the
\* service cannot be built: otherwise it runs the interactive authorization, writes the new
\* token to the store and the upload goes on.
C21_AbsentCredential ==
    \A i \in OnAbsentCredential :
       LET calls == orch[i].calls
           cls == get_platform(req[i]).cls
       IN  /\ calls[1].op = "authenticate"
           /\ cls \in TokenDrivers => calls[1].out = "no token"
           /\ cls = "YouTubePlatform"
                => calls[1].out \in {"no client secret", "oauth flow", "oauth flow failed",
                                     "build failed"}
           /\ calls[1].out \notin Succeeded
                => /\ Len(calls) = 1
                   /\ results[req[i]] = Failure("Authentication failed", 0)
           /\ calls[1].out \in Succeeded
                => /\ calls[1].out = "oauth flow"
                   /\ lower(req[i]) \in token_writes
                   /\ Len(calls) >= 2
                   /\ calls[2].op = "validate_video_file"

\* C21 witness: TikTok had no token: authenticate failed and the upload ended there
C21_Witness ==
    /\ pc = "done"
    /\ 1 \in OnAbsentCredential
    /\ get_platform(req[1]).cls = "TikTokPlatform"
    /\ orch[1].calls = <<Call("authenticate", "no token")>>
    /\ results[req[1]] = Failure("Authentication failed", 0)

(***************************************************************************)
(* The outcome of a failure.                                               *)
(***************************************************************************)
\* the orchestrations, ended, of a driver of the repository whose last driver operation
\* failed
EndedOnFailure ==
    {i \in Finished : /\ Registered(req[i])
                      /\ get_platform(req[i]).cls \in RepositoryDrivers
                      /\ orch[i].calls # <<>>
                      /\ ~HasSucceeded(get_platform(req[i]).cls, Last(orch[i].calls))}

\* C22 (as claimed): no operation of the Facebook, TikTok and YouTube drivers raises out of
\* the orchestration, and whatever the failure of the operation (transport, server, client
\* answer, answer of an unexpected shape, authentication, invalid file), the orchestration
\* ends and upload_video's outcome is a dictionary with success = false and an error.
C22_FailureIsOutcome ==
    /\ (pc = "raised" /\ req # <<>>) => platform.cls \notin RepositoryDrivers
    /\ \A i \in EndedOnFailure :
          /\ ~results[req[i]].success
          /\ "error" \in DOMAIN results[req[i]]

\* C23: every outcome in the result of upload_video_to_platform and in the map of
\* upload_video_to_multiple_platforms, at every moment and on every path (platform not
\* found, authentication failed, invalid file, failure of a phase, success), is a dictionary
\* with a boolean 'success', and with an 'error' that carries a message when success is false.
C23_SuccessAndError ==
    \A n \in DOMAIN results :
       /\ "success" \in DOMAIN results[n]
       /\ results[n].success \in BOOLEAN
       /\ ~results[n].success
            => /\ "error" \in DOMAIN results[n]
               /\ results[n].error.msg # ""

\* C23 witness: an upload has returned the failure of its publish phase, refused by the
\* platform, with its error
C23_Witness ==
    /\ pc = "done"
    /\ Len(orch) = 1
    /\ orch[1].calls # <<>>
    /\ Last(orch[1].calls) = Call("publish_video", "client")
    /\ DOMAIN results = {req[1]}
    /\ ~results[req[1]].success
    /\ results[req[1]].error.status = 400

(***************************************************************************)
(* The prepared metadata.                                                  *)
(***************************************************************************)
\* C24 (as claimed): the prepared title is never empty: it is 'Untitled' when the title
\* given is absent, empty or made only of whitespace, and the title given without its
\* surrounding whitespace otherwise.
C24_TitleNeverEmpty ==
    \A n \in DOMAIN upload_data :
       LET title == metadata.title
           prepared == upload_data[n].base.title
       IN  /\ prepared # <<>>
           /\ prepared = IF title = None \/ strip(title[1]) = <<>> THEN Untitled
                         ELSE strip(title[1])

\* C25: every tag emitted by the Facebook and the TikTok drivers starts with '#'; the tags
\* emitted are, in order, the tags given that are not empty once trimmed, each trimmed and
\* with one '#' put before it when it did not start with one, unchanged when it did;
\* normalizing the emitted tags again gives the same tags; the two drivers emit the same
\* tags for the same list.
C25_TagsNormalized ==
    /\ \A n \in DOMAIN upload_data :
          LET given == IF metadata.hashtags = None THEN <<>> ELSE metadata.hashtags[1]
              kept == SelectSeq(given, LAMBDA tag : strip(tag) # <<>>)
              emitted == upload_data[n].formatted_hashtags
          IN  /\ Len(emitted) = Len(kept)
              /\ \A k \in 1..Len(emitted) :
                    /\ Head(emitted[k]) = "#"
                    /\ emitted[k] = IF Head(strip(kept[k])) = "#" THEN strip(kept[k])
                                    ELSE <<"#">> \o strip(kept[k])
              /\ FacebookPlatform_formatted_hashtags(emitted) = emitted
              /\ TikTokPlatform_formatted_hashtags(emitted) = emitted
    /\ DOMAIN upload_data = {"facebook", "tiktok"}
         => upload_data["facebook"].formatted_hashtags = upload_data["tiktok"].formatted_hashtags

\* C25 witness: both drivers have prepared a list of a tag without marker, with spaces
\* around, and a tag with marker: the first got its '#', the second is as given
C25_Witness ==
    /\ DOMAIN upload_data = {"facebook", "tiktok"}
    /\ metadata.hashtags = Some(<< <<" ", "a", " ">>, <<"#", "a">> >>)
    /\ upload_data["tiktok"].formatted_hashtags = << <<"#", "a">>, <<"#", "a">> >>
    /\ upload_data["facebook"].formatted_hashtags = << <<"#", "a">>, <<"#", "a">> >>

AfterSaveToken == {"refreshed", "oauth flow", "build failed"}

ServerErrorsFrom(calls, k) ==
    Cardinality({j \in k..Len(calls) : calls[j].out = "server"})

\* the orchestrations ended by a server error
EndedOnServerError ==
    {i \in Finished : orch[i].calls # <<>> /\ Last(orch[i].calls).out = "server"}

\* the position after the last call of the log that was not answered by a server error
\* (1 when there is none)
AfterLastAccepted(calls) ==
    LET accepted == {k \in 1..Len(calls) : calls[k].out # "server"}
    IN  IF accepted = {} THEN 1 ELSE 1 + CHOOSE k \in accepted : \A j \in accepted : j <= k

\* C27 (as claimed): the retries used before a step that succeeded do not count against the
\* step after it: an orchestration gives up on a server error only after the max_retries
\* retries of the step at hand, that is after max_retries + 1 consecutive server errors
\* since the last step that succeeded.
C27_CounterReset ==
    \A i \in EndedOnServerError :
       ServerErrorsFrom(orch[i].calls, AfterLastAccepted(orch[i].calls)) = max_retries + 1

\* C27 (amended): the only retry counter is that of the transfer loop of YouTube; it is 0
\* when the transfer of an upload starts and is never reset during it, not even when a
\* chunk was accepted: at every moment it is the number of server errors met by the
\* transfer so far, and the transfer gives up at the (max_retries + 1)th server error,
\* however many of them came before an accepted chunk.  The steps of Facebook and TikTok
\* have no retry and no counter: their orchestration ends at its first server error.
C27_CounterNeverReset ==
    /\ pc = "next_chunk"
         => /\ retry = ServerErrorsFrom(orch[idx].calls, 1)
            /\ retry <= max_retries
    /\ \A i \in EndedOnServerError :
          LET cls == get_platform(req[i]).cls
              calls == orch[i].calls
          IN  /\ cls = "YouTubePlatform" => ServerErrorsFrom(calls, 1) = max_retries + 1
              /\ cls \in TokenDrivers => ServerErrorsFrom(calls, 1) = 1

\* C27 witness: a transfer met a server error, then had a chunk accepted, and gave up at
\* the third server error after it: the fourth of the transfer
C27_Witness ==
    /\ pc = "done"
    /\ 1 \in EndedOnServerError
    /\ \E k \in 2..Len(orch[1].calls) :
          /\ orch[1].calls[k] = Call("next_chunk", "partial")
          /\ orch[1].calls[k - 1] = Call("next_chunk", "server")
          /\ ServerErrorsFrom(orch[1].calls, k) = max_retries
    /\ ServerErrorsFrom(orch[1].calls, 1) = max_retries + 1
    /\ results[req[1]] = Failure("Upload failed - no response", 0)

(***************************************************************************)
(* The status of the platforms.                                            *)
(***************************************************************************)
\* C28 (as claimed): at every moment get_all_platform_status gives one entry per registered
\* name, each with exists = true and an 'authenticated' flag, and on a manager just
\* constructed every entry has authenticated = false.
C28_StatusOfEveryPlatform ==
    /\ DOMAIN get_all_platform_status = DOMAIN platforms
    /\ \A name \in DOMAIN platforms :
          /\ get_all_platform_status[name].exists
          /\ "authenticated" \in DOMAIN get_all_platform_status[name]
          /\ get_all_platform_status[name].authenticated \in BOOLEAN
    /\ (pc = "idle" /\ setups = 0)
         => \A name \in DOMAIN platforms : ~get_all_platform_status[name].authenticated

(***************************************************************************)
(* The refresh of the token.                                               *)
(***************************************************************************)
\* the orchestrations of YouTube whose authenticate step has run
AuthenticatedByYouTube ==
    {i \in 1..Len(orch) : /\ Registered(req[i])
                          /\ get_platform(req[i]).cls = "YouTubePlatform"
                          /\ orch[i].calls # <<>>
                          /\ orch[i].calls[1].op = "authenticate"}

\* C29: the authenticate step of YouTube that finds an expired token with a refresh token
\* refreshes it and never starts the interactive flow; when the refresh has gone through
\* (and the service is built) the driver is authenticated and the upload goes on.  The
\* interactive flow is started only when no token is stored or the stored one is neither
\* valid nor refreshable, and a valid token starts neither.
C29_RefreshedWithoutFlow ==
    \A i \in AuthenticatedByYouTube :
       LET found == orch[i].found
           out == orch[i].calls[1].out
       IN  /\ found = "expired" => out \in {"refreshed", "refresh failed", "build failed"}
           /\ out \in {"refreshed", "refresh failed"} => found = "expired"
           /\ out = "refreshed"
                => /\ lower(req[i]) \in token_writes
                   /\ i \notin Finished => platforms[lower(req[i])].authenticated
                   /\ i \in Finished => Len(orch[i].calls) >= 2
           /\ out \in {"oauth flow", "oauth flow failed"} => found \in {"absent", "invalid"}
           /\ found = "valid" => out \in {"ok", "build failed"}

\* C29 witness: an upload to YouTube found an expired token, refreshed it, and went on with
\* the driver authenticated
C29_Witness ==
    /\ pc = "next_chunk"
    /\ 1 \in AuthenticatedByYouTube
    /\ orch[1].found = "expired"
    /\ orch[1].calls[1] = Call("authenticate", "refreshed")
    /\ platform.authenticated
    /\ \A k \in 1..Len(orch[1].calls) : orch[1].calls[k].out \notin {"oauth flow", "oauth flow failed"}

(***************************************************************************)
(* The timeouts.                                                           *)
(***************************************************************************)
\* the requests made to a platform by the drivers of the repository: orchestration,
\* position in its log, class of the driver and operation
RequestsMade ==
    {c \in UNION {{[i |-> i, k |-> k, cls |-> get_platform(req[i]).cls, op |-> orch[i].calls[k].op] :
                     k \in 1..Len(orch[i].calls)} :
                  i \in {j \in 1..Len(orch) : Registered(req[j])}} :
        /\ c.cls \in RepositoryDrivers
        /\ c.op \in {"start_session", "upload_file", "publish_video", "next_chunk"}}

\* C30 (as claimed): every request of a phase made by a driver carries a timeout, and the
\* timeout of the driver's transfer is greater than those of its session start and publish.
C30_EveryAttemptTimed ==
    \A c \in RequestsMade :
       /\ <<c.cls, c.op>> \in DOMAIN Timeouts
       /\ c.op \in {"start_session", "publish_video"}
            => Timeouts[<<c.cls, "upload_file">>] > Timeouts[<<c.cls, c.op>>]

\* C30 (amended): every request of the session start, the transfer and the publish of the
\* Facebook and TikTok drivers carries a timeout, and the timeout of the driver's transfer is
\* greater than those of its session start and of its publish; the YouTube driver gives no
\* timeout to next_chunk(), its only phase.
C30_TokenDriversTimed ==
    \A c \in RequestsMade :
       /\ c.cls \in TokenDrivers
            => /\ <<c.cls, c.op>> \in DOMAIN Timeouts
               /\ Timeouts[<<c.cls, c.op>>] > 0
               /\ c.op \in {"start_session", "publish_video"}
                    => Timeouts[<<c.cls, "upload_file">>] > Timeouts[<<c.cls, c.op>>]
       /\ c.cls = "YouTubePlatform"
            => /\ c.op = "next_chunk"
               /\ <<c.cls, c.op>> \notin DOMAIN Timeouts

\* C30 witness: an upload to Facebook has made the requests of its three phases
C30_Witness ==
    /\ pc = "done"
    /\ \A op \in {"start_session", "upload_file", "publish_video"} :
          \E c \in RequestsMade : c.i = 1 /\ c.cls = "FacebookPlatform" /\ c.op = op

(***************************************************************************)
(* is_authenticated() after several authenticate() calls.                  *)
(***************************************************************************)
\* C31 (as claimed): at every moment a driver whose is_authenticated() is true is one whose
\* most recent authenticate() call returned true: after an authenticate() that returned
\* false the driver is not authenticated.
C31_AuthenticatedIsLastResult ==
    \A n \in DOMAIN platforms :
       platforms[n].authenticated => platforms[n].returned = "True"

(***************************************************************************)
(* authenticate within one upload_video_to_platform call.                  *)
(***************************************************************************)
\* C32: in the calls of one upload_video_to_platform the driver's authenticate appears at
\* most once, and when it returned false it is the last call: no validation, session
\* start, transfer or publish of the driver follows it, and the outcome is a failure.
C32_AuthenticateOnce ==
    \A i \in 1..Len(orch) :
       LET calls == orch[i].calls
       IN  /\ Count(calls, "authenticate") <= 1
           /\ \A k \in 1..Len(calls) :
                 (calls[k].op = "authenticate" /\ calls[k].out \notin Succeeded)
                 => /\ k = Len(calls)
                    /\ \A j \in 1..Len(calls) : calls[j].op \notin UploadOps
                    /\ i \in Finished => ~results[req[i]].success

\* C32 witness: an upload to Facebook whose authenticate met a rejected probe has ended
\* with that one call
C32_Witness ==
    /\ pc = "done"
    /\ Len(orch) = 1
    /\ Registered(req[1])
    /\ get_platform(req[1]).cls = "FacebookPlatform"
    /\ orch[1].calls = <<Call("authenticate", "probe failed")>>
    /\ results[req[1]] = Failure("Authentication failed", 0)

(***************************************************************************)
(* A platform listed more than once.                                       *)
(***************************************************************************)
\* the positions of the request at which the upload of the driver registered under `key` was
\* run: an operation of the upload was invoked
UploadsRun(key) ==
    {i \in 1..Len(orch) : /\ lower(req[i]) = key
                          /\ \E k \in 1..Len(orch[i].calls) : orch[i].calls[k].op \in UploadOps}

\* C33 (as claimed): in one dispatch the upload of each registered driver of the repository
\* is run at most once, however many times the request lists it and whatever the case of
\* the letters.
C33_UploadedOnce ==
    \A key \in DOMAIN platforms :
       platforms[key].cls \in RepositoryDrivers => Cardinality(UploadsRun(key)) <= 1

(***************************************************************************)
(* The registry.                                                           *)
(***************************************************************************)
\* C34 (as claimed): every name in the registry is found by get_platform called with that
\* name, which returns the instance registered under it, whatever the case of its letters;
\* a registration whose constructor raised has stored nothing and raised nothing.
C34_RegisteredIsFound ==
    /\ \A name \in DOMAIN platforms :
          /\ Registered(name)
          /\ get_platform(name) = platforms[name]
          /\ platforms[name].cls # "BrokenPlatform"
    /\ pc # "raised"

\* C35 (as claimed): once _initialize_platforms has ended, every platform whose module can
\* be imported is registered, whichever import failed.
C35_ImportableRegistered ==
    pc \notin {"import_tiktok", "import_facebook"}
    => \A name \in importable : name \in DOMAIN platforms

\* C37: authenticate_all_platforms returns a dictionary with one boolean per registered
\* platform and no other key: True where authenticate() returned True, False where it
\* returned False or raised; an exception of one platform never leaves the call, and the
\* platforms after it in the iteration are authenticated all the same.
C37_OneBooleanEach ==
    /\ pc # "raised"
    /\ pc \in {"authenticate_all", "authenticated_all"} =>
          /\ DOMAIN results = {req[j] : j \in 1..(idx - 1)}
          /\ \A n \in DOMAIN results :
                /\ results[n] \in BOOLEAN
                /\ results[n] <=> platforms[n].returned = "True"
    /\ pc = "authenticated_all" => DOMAIN results = DOMAIN platforms

\* a call that has returned, in which the first platform raised and the second was
\* authenticated
C37_Witness ==
    /\ pc = "authenticated_all"
    /\ Len(req) = 2
    /\ platforms[req[1]].returned = "raised"
    /\ ~results[req[1]]
    /\ results[req[2]]

(***************************************************************************)
(* The identifiers of the Facebook and TikTok uploads.                     *)
(***************************************************************************)
\* the identifier given by the step `from` of driver cls when the platform accepts it
Given(cls, from, field) ==
    IF cls = "FacebookPlatform"
    THEN IF from = "start_session"
         THEN FacebookPlatform_start_upload_session(Http(200, "good"))[field]
         ELSE FacebookPlatform_upload_file(Http(200, "good"))[field]
    ELSE TikTokPlatform_initialize_upload(Http(200, "good"))[field]

\* the step whose dictionary holds the identifier that `op` is invoked with
Source(cls, op) ==
    IF cls = "FacebookPlatform" /\ op = "publish_video" THEN "upload_file" ELSE "start_session"

C38_DescriptionWithinLimit ==
    "publish" \in DOMAIN upload_data =>
       LET sent == upload_data["publish"].description
           combined == TikTokPlatform_joined_description(
                           metadata.title, metadata.description, metadata.hashtags)
       IN  /\ Len(sent) <= 2200
           /\ Len(combined) <= 2200 => sent = combined
           /\ Len(combined) > 2200 => sent = SubSeq(combined, 1, 2197) \o <<".", ".", ".">>

\* a combined text of title, description and tag over the limit was sent cut
C38_Witness ==
    /\ "publish" \in DOMAIN upload_data
    /\ metadata.title # None /\ metadata.hashtags # None
    /\ Len(TikTokPlatform_joined_description(
               metadata.title, metadata.description, metadata.hashtags)) > 2200
    /\ Len(upload_data["publish"].description) = 2200
    /\ upload_data["publish"].description[2197] = "x"
    /\ upload_data["publish"].description[2198] = "."

=============================================================================
